---- MODULE Spec2Model ----
(***************************************************************************)
(* Model of the borealis banhammer: the relayer record decoder             *)
(* (src/src/de/relayer.rs), the leaky bucket store (src/src/buckets.rs)    *)
(* and the Banhammer engine (src/src/banhammer.rs).                        *)
(*                                                                         *)
(* Conventions.                                                            *)
(*  - A Rust String is a sequence: a token is a sequence of characters, an *)
(*    error text a sequence of text fragments (its concatenation is the    *)
(*    string), so length, emptiness, equality and `contains` are computed. *)
(*  - Option<T> is a sequence of length 0 (None) or 1 (Some).              *)
(*  - A u128 NEAR-gas amount is three base-10^6 limbs <<h, m, l>> standing *)
(*    for h*10^12 + m*10^6 + l, so the arithmetic is exact.                *)
(*  - A panic (expect, unimplemented!, todo!) ends the process: `panicked` *)
(*    records it and no operation runs afterwards.                         *)
(*  - The `updated` wall-clock stamps of UserClient / UserAddress /        *)
(*    UserToken are written but never read by the engine; they are left    *)
(*    out of the state.                                                    *)
(***************************************************************************)
EXTENDS Integers, Sequences, FiniteSets, TLC

VARIABLES
    config,          \* Banhammer.config
    next_check,      \* Banhammer.next_check
    user_clients,    \* Banhammer.user_clients   : IpAddr  -> UserClient
    user_addresses,  \* Banhammer.user_addresses : Address -> UserAddress
    user_tokens,     \* Banhammer.user_tokens    : Token   -> UserToken
    ban_list,        \* Banhammer.ban_list       : [clients, tokens, addresses]
    leaky_buckets,   \* Banhammer.leaky_buckets  : BucketName -> BucketValue
    elapsed,         \* time.elapsed() as last read by tick
    panicked,        \* "no", or the panic that ended the process
    op,              \* the operation that produced this state
    input,           \* the record handed to the last from_str / read_input
    banned,          \* ban_progression's tuple in the last read_input
    ban_reasons,     \* the last read_input's return value
    metrics,         \* the counters of stats.rs and of prometheus.rs
    nats,            \* relayer_message_consumer: error_rate, what it forwarded
    bucket_queue,    \* a BucketPriorityQueue, the system clock, the last result
    bucket_call,     \* the last direct call of a LeakyBucket method, and when
    service          \* main.rs: CID, SIGNAL, the channels and the tasks' positions

vars == <<config, next_check, user_clients, user_addresses, user_tokens,
          ban_list, leaky_buckets, elapsed, panicked, op, input, banned,
          ban_reasons, metrics, nats, bucket_queue, bucket_call, service>>

-----------------------------------------------------------------------------
(* Bounds of the model.                                                    *)

MaxThreshold == 2
MaxMultiplier == 2
MaxMessages == 3
MaxTimeframe == 1

-----------------------------------------------------------------------------
(* Option<T>.                                                              *)

None == <<>>
Some(v) == <<v>>
is_some(o) == Len(o) = 1
is_none(o) == Len(o) = 0
unwrap(o) == o[1]

-----------------------------------------------------------------------------
(* Strings of the input record.                                            *)

\* a text of n times the piece c, kept as runs of a repeated piece
Str(n, c) == IF n = 0 THEN <<>> ELSE <<[piece |-> c, times |-> n]>>

contains(s, pat) ==
    \E i \in 0..(Len(s) - Len(pat)) : SubSeq(s, i + 1, i + Len(pat)) = pat

RELAYER_ERR_PATTERN == <<"httpsgithub.comaurora-is-nearaurora-relayerissues">>
ERR_INCORRECT_NONCE == <<"ERR_INCORRECT_NONCE">>
ERR_MAX_GAS == <<"Exceeded the maximum amount of gas allowed to burn per contract.">>
ERR_INVALID_ECDSA_SIGNATURE == <<"ERR_INVALID_ECDSA_SIGNATURE">>
ERR_REVERT == <<"execution reverted">>
ERR_RELAYER == <<"Report at ">> \o RELAYER_ERR_PATTERN \o <<"new">>

TokenLenLong == 44
TokenLenShort == 43

-----------------------------------------------------------------------------
(* TransactionError and its decoding.                                      *)

ErrIncorrectNonce == [tag |-> "ErrIncorrectNonce", msg |-> <<>>]
MaxGas == [tag |-> "MaxGas", msg |-> <<>>]
InvalidECDSA == [tag |-> "InvalidECDSA", msg |-> <<>>]
Revert(s) == [tag |-> "Revert", msg |-> s]
Relayer(s) == [tag |-> "Relayer", msg |-> s]

Ok(v) == [ok |-> TRUE, val |-> v]
Err == [ok |-> FALSE, val |-> <<>>]

\* an error decoder whose relayer arm takes the pattern alone
deserialize_error_relayer_exact(err) ==
    IF err = <<>> THEN Ok(None)
    ELSE IF err = RELAYER_ERR_PATTERN THEN Ok(Some(Relayer(err)))
    ELSE IF err = ERR_INCORRECT_NONCE THEN Ok(Some(ErrIncorrectNonce))
    ELSE IF err = ERR_MAX_GAS THEN Ok(Some(MaxGas))
    ELSE Ok(Some(Revert(err)))

deserialize_error(err) ==
    IF err = <<>> THEN Ok(None)
    ELSE IF contains(err, RELAYER_ERR_PATTERN) THEN Ok(Some(Relayer(err)))
    ELSE IF err = ERR_INCORRECT_NONCE THEN Ok(Some(ErrIncorrectNonce))
    ELSE IF err = ERR_MAX_GAS THEN Ok(Some(MaxGas))
    ELSE Ok(Some(Revert(err)))

\* a character outside ASCII; its UTF-8 encoding takes two bytes
TwoByteChar == "U+00E9"
Utf8Width(c) == IF c = TwoByteChar THEN 2 ELSE 1

\* str::len: the length of a string in bytes of its UTF-8 encoding
RECURSIVE len(_)
len(s) ==
    IF s = <<>> THEN 0
    ELSE Head(s).times * Utf8Width(Head(s).piece) + len(Tail(s))

\* a token decoder that takes the long form only
deserialize_token_long_only(token) ==
    IF token = <<>> THEN Ok(None)
    ELSE IF len(token) # TokenLenLong THEN Err
    ELSE Ok(Some(token))

deserialize_token(token) ==
    IF token = <<>> THEN Ok(None)
    ELSE IF len(token) # TokenLenLong /\ len(token) # TokenLenShort THEN Err
    ELSE Ok(Some(token))

\* serde_json::from_str::<RelayerMessage>: the record decodes when every
\* field does; the fields the engine reads are client, error, token, from.
from_str(rec) ==
    LET e == deserialize_error(rec.error)
        t == deserialize_token(rec.token)
    IN  IF e.ok /\ t.ok
        THEN Ok([client |-> rec.client, from |-> rec.from,
                 error |-> e.val, token |-> t.val])
        ELSE Err

-----------------------------------------------------------------------------
(* u128 NEAR gas in base-10^6 limbs.                                       *)

Limb == 1000000

Gas(h, m, l) == <<h, m, l>>

GasAdd(a, b) ==
    LET l == a[3] + b[3]
        m == a[2] + b[2] + (l \div Limb)
        h == a[1] + b[1] + (m \div Limb)
    IN  <<h, m % Limb, l % Limb>>

GasGt(a, b) ==
    \/ a[1] > b[1]
    \/ a[1] = b[1] /\ a[2] > b[2]
    \/ a[1] = b[1] /\ a[2] = b[2] /\ a[3] > b[3]

GasSub(a, b) ==
    LET l == a[3] - b[3]
        bl == IF l < 0 THEN 1 ELSE 0
        m == a[2] - b[2] - bl
        bm == IF m < 0 THEN 1 ELSE 0
    IN  <<a[1] - b[1] - bm, m + bm * Limb, l + bl * Limb>>

\* n * 1_000_000_000_000
TeraGas(n) == <<n, 0, 0>>

NEAR_GAS_COUNTER == Gas(202, 651902, 28573)

-----------------------------------------------------------------------------
(* buckets.rs: BucketName, BucketValue, LeakyBucket.                       *)

\* a bucket name that leaves the error kind out
BucketNameOfPrincipal(kind, value, error) ==
    [kind |-> kind, value |-> value, error |-> "Reverts"]

BucketName(kind, value, error) == [kind |-> kind, value |-> value, error |-> error]

BucketValue(kind, val) == [kind |-> kind, val |-> val]

\* position of the variant in `enum BucketValue`, which the derived
\* PartialOrd compares before the payload
VariantIndex(kind) ==
    CASE kind = "IncorrectNonce" -> 0
      [] kind = "MaxGas" -> 1
      [] kind = "Reverts" -> 2
      [] kind = "UsedExcessiveGas" -> 3
      [] OTHER -> 4

PayloadGt(a, b) ==
    IF a.kind = "UsedExcessiveGas" THEN GasGt(a.val, b.val) ELSE a.val > b.val

\* a > b under #[derive(PartialOrd)]
BucketValueGt(a, b) ==
    \/ VariantIndex(a.kind) > VariantIndex(b.kind)
    \/ a.kind = b.kind /\ PayloadGt(a, b)

Panic(what) == [kind |-> what, val |-> 0]
IsPanic(v) == v.kind \in {"unimplemented!", "todo!"}

Arithmetic == {"IncorrectNonce", "MaxGas", "UsedExcessiveGas", "Reverts"}

\* impl Add for BucketValue
Add(l, r) ==
    IF l.kind \in Arithmetic
    THEN IF r.kind = l.kind
         THEN IF l.kind = "UsedExcessiveGas"
              THEN BucketValue(l.kind, GasAdd(l.val, r.val))
              ELSE BucketValue(l.kind, l.val + r.val)
         ELSE Panic("unimplemented!")
    ELSE Panic("todo!")

\* Sub without the comparison that guards the subtraction
SubUnguarded(l, r) ==
    IF l.kind \in Arithmetic
    THEN IF r.kind = l.kind
         THEN IF l.kind = "UsedExcessiveGas"
              THEN BucketValue(l.kind, GasSub(l.val, r.val))
              ELSE BucketValue(l.kind, l.val - r.val)
         ELSE Panic("unimplemented!")
    ELSE Panic("todo!")

\* impl Sub for BucketValue (zero when the right value is not smaller)
Sub(l, r) ==
    IF l.kind \in Arithmetic
    THEN IF r.kind = l.kind
         THEN IF l.kind = "UsedExcessiveGas"
              THEN BucketValue(l.kind, IF GasGt(l.val, r.val) THEN GasSub(l.val, r.val)
                                       ELSE Gas(0, 0, 0))
              ELSE BucketValue(l.kind, IF l.val > r.val THEN l.val - r.val ELSE 0)
         ELSE Panic("unimplemented!")
    ELSE Panic("todo!")

\* LeakyBucket::get_fill: the value the bucket would hold; queries only
get_fill(store, key, value) ==
    IF key \notin DOMAIN store THEN value
    ELSE IF key.error \in Arithmetic
         THEN IF value.kind = key.error THEN Add(store[key], value) ELSE Panic("todo!")
         ELSE Panic("todo!")

Put(store, key, value) ==
    [k \in DOMAIN store \cup {key} |-> IF k = key THEN value ELSE store[k]]

Done(store) == [panic |-> "no", store |-> store]
Abort(what, store) == [panic |-> what, store |-> store]

\* LeakyBucket::fill
fill(store, key, value) == Done(Put(store, key, value))

\* LeakyBucket::decrease
decrease(store, key, value) ==
    IF key \notin DOMAIN store THEN Done(store)
    ELSE LET new_value ==
                 IF key.error \in Arithmetic
                 THEN IF value.kind = key.error THEN Sub(store[key], value) ELSE Panic("todo!")
                 ELSE Panic("todo!")
         IN  IF IsPanic(new_value) THEN Abort(new_value.kind, store)
             ELSE Done(Put(store, key, new_value))

\* LeakyBucket::leaky
leaky(store, key, value) == decrease(store, key, value)

-----------------------------------------------------------------------------
(* banhammer.rs: records of the engine.                                    *)

BanProgressDefault ==
    [incorrect_nonce |-> 0, max_gas |-> 0, revert |-> <<>>, excessive_gas |-> Gas(0, 0, 0)]

\* a reset of the two counters only
reset_counters(ban_progress) ==
    [ban_progress EXCEPT !.incorrect_nonce = 0, !.max_gas = 0]

\* BanProgress::reset
reset(ban_progress) == BanProgressDefault

\* UserClient::default(), UserAddress::default(), UserToken::default()
UserClientDefault ==
    [tokens |-> <<>>, addresses |-> <<>>, transaction_count |-> 0,
     ban_progress |-> BanProgressDefault, banned |-> None]

UserAddressDefault ==
    [clients |-> <<>>, tokens |-> <<>>, transaction_count |-> 0,
     ban_progress |-> BanProgressDefault, banned |-> None]

UserTokenDefault ==
    [clients |-> <<>>, addresses |-> <<>>, transaction_count |-> 0,
     ban_progress |-> BanProgressDefault, banned |-> None]

Contains(list, x) == \E i \in 1..Len(list) : list[i] = x

Remove(map, key) == [k \in DOMAIN map \ {key} |-> map[k]]

\* the engine as one value; `panic` is "no" until an operation panics, and
\* every operation leaves a panicked engine alone
Self ==
    [config |-> config, next_check |-> next_check, user_clients |-> user_clients,
     user_addresses |-> user_addresses, user_tokens |-> user_tokens,
     ban_list |-> ban_list, leaky_buckets |-> leaky_buckets, panic |-> "no"]

\* Banhammer::new
new(cfg) ==
    [config |-> cfg, next_check |-> cfg.timeframe, user_clients |-> <<>>,
     user_addresses |-> <<>>, user_tokens |-> <<>>,
     ban_list |-> [clients |-> <<>>, tokens |-> <<>>, addresses |-> <<>>],
     leaky_buckets |-> <<>>, panic |-> "no"]

-----------------------------------------------------------------------------
(* check_ban                                                               *)

Multiplier(cfg, token) == IF is_some(token) THEN cfg.token_multiplier ELSE 1

NearGasThreshold(cfg, token) ==
    IF is_some(token)
    THEN TeraGas(cfg.excessive_gas_threshold * cfg.token_multiplier)
    ELSE TeraGas(cfg.excessive_gas_threshold)

\* a variant that forgets the token multiplier
CheckBanThresholdUnscaled(cfg, token, configured) == configured

CheckBanThreshold(cfg, token, configured) ==
    IF is_some(token) THEN configured * cfg.token_multiplier ELSE configured

Verdict(progress, reason) == [progress |-> progress, reason |-> reason]

\* a variant that counts the error before it looks at the gas
check_ban_error_first(ban_progress, cfg, token, maybe_error, near_gas) ==
    LET tag == IF is_none(maybe_error) THEN "none" ELSE unwrap(maybe_error).tag
        counted ==
            CASE tag \in {"ErrIncorrectNonce", "InvalidECDSA"} ->
                   [ban_progress EXCEPT !.incorrect_nonce = @ + 1]
              [] tag = "MaxGas" -> [ban_progress EXCEPT !.max_gas = @ + 1]
              [] tag = "Revert" ->
                   [ban_progress EXCEPT !.revert = Append(@, unwrap(maybe_error).msg)]
              [] OTHER -> ban_progress
        p == [counted EXCEPT !.excessive_gas = GasAdd(@, near_gas)]
    IN  IF GasGt(p.excessive_gas, NearGasThreshold(cfg, token))
        THEN Verdict(p, Some("UsedExcessiveGas"))
        ELSE CASE tag \in {"ErrIncorrectNonce", "InvalidECDSA"} ->
                    Verdict(p, IF p.incorrect_nonce >= CheckBanThreshold(cfg, token, cfg.incorrect_nonce_threshold)
                               THEN Some("TooManyIncorrectNonce") ELSE None)
               [] tag = "MaxGas" ->
                    Verdict(p, IF p.max_gas >= CheckBanThreshold(cfg, token, cfg.max_gas_threshold)
                               THEN Some("TooManyMaxGas") ELSE None)
               [] tag = "Revert" ->
                    Verdict(p, IF Len(p.revert) >= CheckBanThreshold(cfg, token, cfg.revert_threshold)
                               THEN Some("TooManyReverts") ELSE None)
               [] OTHER -> Verdict(p, None)

\* a variant that counts a relayer error as a revert
check_ban_relayer_counted(ban_progress, cfg, token, maybe_error, near_gas) ==
    LET gassed == [ban_progress EXCEPT !.excessive_gas = GasAdd(@, near_gas)]
    IN  IF GasGt(gassed.excessive_gas, NearGasThreshold(cfg, token))
        THEN Verdict(gassed, Some("UsedExcessiveGas"))
        ELSE IF is_none(maybe_error) THEN Verdict(gassed, None)
        ELSE LET error == unwrap(maybe_error) IN
             CASE error.tag \in {"ErrIncorrectNonce", "InvalidECDSA"} ->
                    LET p == [gassed EXCEPT !.incorrect_nonce = @ + 1]
                    IN  Verdict(p, IF p.incorrect_nonce >= CheckBanThreshold(cfg, token, cfg.incorrect_nonce_threshold)
                                   THEN Some("TooManyIncorrectNonce") ELSE None)
               [] error.tag = "MaxGas" ->
                    LET p == [gassed EXCEPT !.max_gas = @ + 1]
                    IN  Verdict(p, IF p.max_gas >= CheckBanThreshold(cfg, token, cfg.max_gas_threshold)
                                   THEN Some("TooManyMaxGas") ELSE None)
               [] OTHER ->
                    LET p == [gassed EXCEPT !.revert = Append(@, error.msg)]
                    IN  Verdict(p, IF Len(p.revert) >= CheckBanThreshold(cfg, token, cfg.revert_threshold)
                                   THEN Some("TooManyReverts") ELSE None)

check_ban(ban_progress, cfg, token, maybe_error, near_gas) ==
    LET gassed == [ban_progress EXCEPT !.excessive_gas = GasAdd(@, near_gas)]
    IN  IF GasGt(gassed.excessive_gas, NearGasThreshold(cfg, token))
        THEN Verdict(gassed, Some("UsedExcessiveGas"))
        ELSE IF is_none(maybe_error) THEN Verdict(gassed, None)
        ELSE LET error == unwrap(maybe_error) IN
             CASE error.tag \in {"ErrIncorrectNonce", "InvalidECDSA"} ->
                    LET threshold == CheckBanThreshold(cfg, token, cfg.incorrect_nonce_threshold)
                        p == [gassed EXCEPT !.incorrect_nonce = @ + 1]
                    IN  Verdict(p, IF p.incorrect_nonce >= threshold
                                   THEN Some("TooManyIncorrectNonce") ELSE None)
               [] error.tag = "MaxGas" ->
                    LET threshold == CheckBanThreshold(cfg, token, cfg.max_gas_threshold)
                        p == [gassed EXCEPT !.max_gas = @ + 1]
                    IN  Verdict(p, IF p.max_gas >= threshold
                                   THEN Some("TooManyMaxGas") ELSE None)
               [] error.tag = "Revert" ->
                    LET threshold == CheckBanThreshold(cfg, token, cfg.revert_threshold)
                        p == [gassed EXCEPT !.revert = Append(@, error.msg)]
                    IN  Verdict(p, IF Len(p.revert) >= threshold
                                   THEN Some("TooManyReverts") ELSE None)
               [] OTHER -> Verdict(gassed, None)

-----------------------------------------------------------------------------
(* Banhammer::process_bucket                                               *)

BucketNameValue(tag, v) == [tag |-> tag, v |-> v]

ProcessBucketThreshold(cfg, token_exist, configured) ==
    IF token_exist THEN configured * cfg.token_multiplier ELSE configured

WithStore(self, res) ==
    [self EXCEPT !.leaky_buckets = res.store, !.panic = res.panic]

\* one error arm of process_bucket: peek, compare with Reverts(threshold),
\* then decrease by the peeked value or fill with Reverts(1)
ErrorArm(self, bucket, unit, threshold) ==
    LET fill_result == get_fill(self.leaky_buckets, bucket, unit)
    IN  IF IsPanic(fill_result)
        THEN [self EXCEPT !.panic = fill_result.kind]
        ELSE IF BucketValueGt(fill_result, BucketValue("Reverts", threshold))
             THEN WithStore(self, decrease(self.leaky_buckets, bucket, fill_result))
             ELSE WithStore(self, fill(self.leaky_buckets, bucket, BucketValue("Reverts", 1)))

process_bucket(self, bucket_identity, bucket_value, maybe_error, near_gas, token_exist) ==
    IF self.panic # "no" THEN self
    ELSE
    LET bucket_excessive_gas == BucketName(bucket_identity, bucket_value, "UsedExcessiveGas")
        x == get_fill(self.leaky_buckets, bucket_excessive_gas,
                      BucketValue("UsedExcessiveGas", near_gas))
        cfg == self.config
    IN  IF IsPanic(x) THEN [self EXCEPT !.panic = x.kind]
        ELSE IF is_none(maybe_error) THEN self
        ELSE LET error == unwrap(maybe_error) IN
             CASE error.tag \in {"ErrIncorrectNonce", "InvalidECDSA"} ->
                    ErrorArm(self,
                             BucketName(bucket_identity, bucket_value, "IncorrectNonce"),
                             BucketValue("IncorrectNonce", 1),
                             ProcessBucketThreshold(cfg, token_exist, cfg.incorrect_nonce_threshold))
               [] error.tag = "MaxGas" ->
                    ErrorArm(self,
                             BucketName(bucket_identity, bucket_value, "MaxGas"),
                             BucketValue("MaxGas", 1),
                             ProcessBucketThreshold(cfg, token_exist, cfg.max_gas_threshold))
               [] error.tag = "Revert" ->
                    ErrorArm(self,
                             BucketName(bucket_identity, bucket_value, "Reverts"),
                             BucketValue("Reverts", 1),
                             ProcessBucketThreshold(cfg, token_exist, cfg.revert_threshold))
               [] OTHER -> self

-----------------------------------------------------------------------------
(* Banhammer::tick                                                         *)

ResetAll(map) == [k \in DOMAIN map |-> [map[k] EXCEPT !.ban_progress = reset(@)]]

\* a tick that fires at the deadline already
tick_at_deadline(self, time_elapsed) ==
    IF time_elapsed >= self.next_check
    THEN [self EXCEPT !.user_clients = ResetAll(@),
                      !.user_addresses = ResetAll(@),
                      !.user_tokens = ResetAll(@),
                      !.next_check = @ + self.config.timeframe]
    ELSE self

tick(self, time_elapsed) ==
    IF time_elapsed > self.next_check
    THEN [self EXCEPT !.user_clients = ResetAll(@),
                      !.user_addresses = ResetAll(@),
                      !.user_tokens = ResetAll(@),
                      !.next_check = @ + self.config.timeframe]
    ELSE self

-----------------------------------------------------------------------------
(* Banhammer::associate_with_user_client / _address / _token               *)

Entry(map, key, default) == IF key \in DOMAIN map THEN map[key] ELSE default

PushNew(list, x) == IF Contains(list, x) THEN list ELSE Append(list, x)

PushNewOpt(list, o) == IF is_some(o) THEN PushNew(list, unwrap(o)) ELSE list

\* a variant that creates no record for a client that is in the ban list
associate_unless_banned(self, client, address, maybe_token) ==
    IF self.panic # "no" \/ client \in DOMAIN self.ban_list.clients THEN self
    ELSE LET user_client == Entry(self.user_clients, client, UserClientDefault)
         IN  [self EXCEPT !.user_clients =
                  Put(@, client, [user_client EXCEPT
                                     !.addresses = PushNew(@, address),
                                     !.tokens = PushNewOpt(@, maybe_token)])]

associate_with_user_client(self, client, address, maybe_token) ==
    IF self.panic # "no" THEN self
    ELSE LET user_client == Entry(self.user_clients, client, UserClientDefault)
         IN  [self EXCEPT !.user_clients =
                  Put(@, client, [user_client EXCEPT
                                     !.addresses = PushNew(@, address),
                                     !.tokens = PushNewOpt(@, maybe_token)])]

associate_with_user_address(self, address, client, maybe_token) ==
    IF self.panic # "no" THEN self
    ELSE LET user_address == Entry(self.user_addresses, address, UserAddressDefault)
         IN  [self EXCEPT !.user_addresses =
                  Put(@, address, [user_address EXCEPT
                                      !.clients = PushNew(@, client),
                                      !.tokens = PushNewOpt(@, maybe_token)])]

associate_with_user_token(self, token, client, address) ==
    IF self.panic # "no" THEN self
    ELSE LET user_token == Entry(self.user_tokens, token, UserTokenDefault)
         IN  [self EXCEPT !.user_tokens =
                  Put(@, token, [user_token EXCEPT
                                    !.clients = PushNew(@, client),
                                    !.addresses = PushNew(@, address)])]

-----------------------------------------------------------------------------
(* Banhammer::increment_transaction_count                                  *)

Expect(self, map, key) ==
    IF self.panic = "no" /\ key \notin DOMAIN map THEN [self EXCEPT !.panic = "expect"] ELSE self

Bump(map, key) == [map EXCEPT ![key].transaction_count = @ + 1]

\* get_mut(..).expect(..) and the increment, for each kind of principal
CountClient(self, user) ==
    IF self.panic # "no" THEN self
    ELSE IF user.client \notin DOMAIN self.user_clients THEN Expect(self, self.user_clients, user.client)
    ELSE [self EXCEPT !.user_clients = Bump(@, user.client)]

CountAddress(self, user) ==
    IF self.panic # "no" THEN self
    ELSE IF user.address \notin DOMAIN self.user_addresses THEN Expect(self, self.user_addresses, user.address)
    ELSE [self EXCEPT !.user_addresses = Bump(@, user.address)]

CountToken(self, user) ==
    IF self.panic # "no" \/ is_none(user.token) THEN self
    ELSE IF unwrap(user.token) \notin DOMAIN self.user_tokens
         THEN Expect(self, self.user_tokens, unwrap(user.token))
    ELSE [self EXCEPT !.user_tokens = Bump(@, unwrap(user.token))]

\* a variant that leaves the address out
increment_transaction_count_no_address(self, user) ==
    CountToken(CountClient(self, user), user)

increment_transaction_count(self, user) ==
    CountToken(CountAddress(CountClient(self, user), user), user)

-----------------------------------------------------------------------------
(* Banhammer::ban_progression                                              *)

Progression(self, client, address, token) ==
    [self |-> self, client |-> client, address |-> address, token |-> token]

Checked(map, key, verdict) == [map EXCEPT ![key].ban_progress = verdict.progress]

\* the record's progress and the reason after check_ban
ClientChecked(prog, client, verdict) ==
    [prog EXCEPT !.self.user_clients = Checked(@, client, verdict), !.client = verdict.reason]

AddressChecked(prog, address, verdict) ==
    [prog EXCEPT !.self.user_addresses = Checked(@, address, verdict), !.address = verdict.reason]

TokenChecked(prog, token, verdict) ==
    [prog EXCEPT !.self.user_tokens = Checked(@, token, verdict), !.token = verdict.reason]

\* a variant that checks a client again that is in the ban list
ProgressClientAgain(prog, user, token, maybe_error, near_gas) ==
    IF prog.self.panic # "no" THEN prog
    ELSE IF user.client \notin DOMAIN prog.self.user_clients
         THEN [prog EXCEPT !.self = Expect(@, @.user_clients, user.client)]
    ELSE ClientChecked(prog, user.client,
                       check_ban(prog.self.user_clients[user.client].ban_progress,
                                 prog.self.config, token, maybe_error, near_gas))

\* a principal that is in the ban list is not checked again
ProgressClient(prog, user, token, maybe_error, near_gas) ==
    IF prog.self.panic # "no" \/ user.client \in DOMAIN prog.self.ban_list.clients THEN prog
    ELSE IF user.client \notin DOMAIN prog.self.user_clients
         THEN [prog EXCEPT !.self = Expect(@, @.user_clients, user.client)]
    ELSE ClientChecked(prog, user.client,
                       check_ban(prog.self.user_clients[user.client].ban_progress,
                                 prog.self.config, token, maybe_error, near_gas))

ProgressAddress(prog, user, token, maybe_error, near_gas) ==
    IF prog.self.panic # "no" \/ user.address \in DOMAIN prog.self.ban_list.addresses THEN prog
    ELSE IF user.address \notin DOMAIN prog.self.user_addresses
         THEN [prog EXCEPT !.self = Expect(@, @.user_addresses, user.address)]
    ELSE AddressChecked(prog, user.address,
                        check_ban(prog.self.user_addresses[user.address].ban_progress,
                                  prog.self.config, token, maybe_error, near_gas))

ProgressToken(prog, user, token, maybe_error, near_gas) ==
    IF prog.self.panic # "no" \/ is_none(token) THEN prog
    ELSE IF unwrap(token) \in DOMAIN prog.self.ban_list.tokens THEN prog
    ELSE IF unwrap(token) \notin DOMAIN prog.self.user_tokens
         THEN [prog EXCEPT !.self = Expect(@, @.user_tokens, unwrap(token))]
    ELSE TokenChecked(prog, unwrap(token),
                      check_ban(prog.self.user_tokens[unwrap(token)].ban_progress,
                                prog.self.config, token, maybe_error, near_gas))

ban_progression(self, user, token, maybe_error, near_gas) ==
    ProgressToken(
        ProgressAddress(
            ProgressClient(Progression(self, None, None, None),
                           user, token, maybe_error, near_gas),
            user, token, maybe_error, near_gas),
        user, token, maybe_error, near_gas)

-----------------------------------------------------------------------------
(* Banhammer::read_input                                                   *)

UserDetails(msg) == [client |-> msg.client, address |-> msg.from, token |-> msg.token]

\* the three associations; the token's only when the message has one
AssociateToken(self, user) ==
    IF is_some(user.token)
    THEN associate_with_user_token(self, unwrap(user.token), user.client, user.address)
    ELSE self

Associate(self, user) ==
    AssociateToken(
        associate_with_user_address(
            associate_with_user_client(self, user.client, user.address, user.token),
            user.address, user.client, user.token),
        user)

\* the three process_bucket calls; the token's only when the message has one
ProcessToken(self, msg, near_gas) ==
    IF is_some(msg.token)
    THEN process_bucket(self, "Token", BucketNameValue("Token", unwrap(msg.token)),
                        msg.error, near_gas, is_some(msg.token))
    ELSE self

Process(self, msg, near_gas) ==
    ProcessToken(
        process_bucket(
            process_bucket(self, "IP", BucketNameValue("IP", msg.client),
                           msg.error, near_gas, is_some(msg.token)),
            "Address", BucketNameValue("Address", msg.from),
            msg.error, near_gas, is_some(msg.token)),
        msg, near_gas)

\* remove the record from the active map, mark it, insert it in the ban list
BanClient(prog, user) ==
    IF prog.self.panic # "no" \/ is_none(prog.client) THEN prog
    ELSE IF user.client \notin DOMAIN prog.self.user_clients
         THEN [prog EXCEPT !.self = Expect(@, @.user_clients, user.client)]
    ELSE [prog EXCEPT !.self.user_clients = Remove(@, user.client),
                      !.self.ban_list.clients =
                          Put(@, user.client,
                              [prog.self.user_clients[user.client]
                                  EXCEPT !.banned = Some(unwrap(prog.client))])]

BanAddress(prog, user) ==
    IF prog.self.panic # "no" \/ is_none(prog.address) THEN prog
    ELSE IF user.address \notin DOMAIN prog.self.user_addresses
         THEN [prog EXCEPT !.self = Expect(@, @.user_addresses, user.address)]
    ELSE [prog EXCEPT !.self.user_addresses = Remove(@, user.address),
                      !.self.ban_list.addresses =
                          Put(@, user.address,
                              [prog.self.user_addresses[user.address]
                                  EXCEPT !.banned = Some(unwrap(prog.address))])]

BanToken(prog, user) ==
    IF prog.self.panic # "no" \/ is_none(prog.token) THEN prog
    ELSE IF is_none(user.token) THEN [prog EXCEPT !.self.panic = "expect"]
    ELSE IF unwrap(user.token) \notin DOMAIN prog.self.user_tokens
         THEN [prog EXCEPT !.self = Expect(@, @.user_tokens, unwrap(user.token))]
    ELSE [prog EXCEPT !.self.user_tokens = Remove(@, unwrap(user.token)),
                      !.self.ban_list.tokens =
                          Put(@, unwrap(user.token),
                              [prog.self.user_tokens[unwrap(user.token)]
                                  EXCEPT !.banned = Some(unwrap(prog.token))])]

Returned(self, banned_, reasons) == [self |-> self, banned |-> banned_, ban_reasons |-> reasons]

NoBans == [client |-> None, address |-> None, token |-> None]

\* a variant that pushes the address's reason first
PushedAddressFirst(prog) == prog.address \o prog.client \o prog.token

\* the ban reasons pushed for the client, then the address, then the token
Pushed(prog) == prog.client \o prog.address \o prog.token

\* what the call leaves and returns; nothing is returned from a panic
Return(prog) ==
    IF prog.self.panic # "no" THEN Returned(prog.self, NoBans, <<>>)
    ELSE Returned(prog.self,
                  [client |-> prog.client, address |-> prog.address, token |-> prog.token],
                  Pushed(prog))

read_input(self, msg) ==
    Return(
        BanToken(
            BanAddress(
                BanClient(
                    ban_progression(
                        increment_transaction_count(
                            Process(Associate(self, UserDetails(msg)), msg, NEAR_GAS_COUNTER),
                            UserDetails(msg)),
                        UserDetails(msg), msg.token, msg.error, NEAR_GAS_COUNTER),
                    UserDetails(msg)),
                UserDetails(msg)),
            UserDetails(msg)))

-----------------------------------------------------------------------------
(* The configurations and the input records the model draws from.          *)

Config(timeframe, nonce, gas, revert, excessive, multiplier) ==
    [timeframe |-> timeframe,
     incorrect_nonce_threshold |-> nonce,
     max_gas_threshold |-> gas,
     revert_threshold |-> revert,
     excessive_gas_threshold |-> excessive,
     token_multiplier |-> multiplier]

\* excessive_gas_threshold: 3 is passed by one message's NEAR gas
\* (202.65e12 > 3e12), 500 by the third message's (607.96e12 > 500e12)
GasTight == 3
GasWide == 500

Configs ==
    {Config(MaxTimeframe, MaxThreshold, MaxThreshold, MaxThreshold, GasWide, 1),
     Config(MaxTimeframe, 1, MaxThreshold, 1, GasWide, MaxMultiplier),
     Config(MaxTimeframe, MaxThreshold, 1, MaxThreshold, GasTight, MaxMultiplier)}

IP1 == Str(1, "127.0.0.1")
IP2 == Str(1, "10.0.0.2")
Address1 == Str(1, "0xaa")
Address2 == Str(1, "0xbb")
Token44 == Str(TokenLenLong, "a")
Token43 == Str(TokenLenShort, "b")
Token42 == Str(TokenLenShort - 1, "c")

Sender(client, from, token) == [client |-> client, from |-> from, token |-> token]

\* who sends: each client and each address with and without a token, one
\* client with two addresses, one address behind two clients, two tokens
Senders ==
    {Sender(IP1, Address1, <<>>), Sender(IP1, Address2, Token44),
     Sender(IP2, Address1, Token43)}

ErrorStrings == {<<>>, ERR_INCORRECT_NONCE, ERR_MAX_GAS, ERR_REVERT, ERR_RELAYER}

Record(sender, error) ==
    [client |-> sender.client, from |-> sender.from, token |-> sender.token, error |-> error]

\* every sender with every error text, one record with the invalid-ECDSA
\* text, and one record whose token has 42 characters
Records ==
    {Record(s, e) : s \in Senders, e \in ErrorStrings}
    \cup {Record(Sender(IP1, Address1, <<>>), ERR_INVALID_ECDSA_SIGNATURE)}
    \cup {Record(Sender(IP1, Address1, Token42), <<>>)}

\* the instants at which the driver reads time.elapsed(): exactly at the
\* first deadline (not yet past it: the test is strict) and past it
Instants == {MaxTimeframe, MaxTimeframe + 1}

NoRecord == [client |-> <<>>, from |-> <<>>, token |-> <<>>, error |-> <<>>]

RECURSIVE SumTx(_, _)
SumTx(map, keys) ==
    IF keys = {} THEN 0
    ELSE LET k == CHOOSE x \in keys : TRUE
         IN  map[k].transaction_count + SumTx(map, keys \ {k})

\* the number of read_input calls that returned: each one counts one
\* transaction for the message's client, banned or not
TotalTx ==
    SumTx(user_clients, DOMAIN user_clients)
    + SumTx(ban_list.clients, DOMAIN ban_list.clients)

-----------------------------------------------------------------------------
(* stats.rs and prometheus.rs: the counters and Measure::inc.              *)

MessagesReceived == [tag |-> "MessagesReceived", reason |-> <<>>]
MessagesProcessed == [tag |-> "MessagesProcessed", reason |-> <<>>]
MessagesSent == [tag |-> "MessagesSent", reason |-> <<>>]
\* stats.rs: Counter::BanReason(reason), labelled with the reason
BanReasonOf(reason) == [tag |-> "BanReason", reason |-> <<reason>>]
\* prometheus.rs: Counter::BanReason, a unit variant
BanReasonUnit == [tag |-> "BanReason", reason |-> <<>>]

StatsCounters ==
    [received |-> 0, processed |-> 0, sent |-> 0, ban_reason |-> <<>>]
PrometheusCounters == [received |-> 0, processed |-> 0, sent |-> 0]

\* IntCounterVec::with_label_values(..).inc(): the child is made on demand
IncLabel(vec, label) ==
    Put(vec, label, IF label \in DOMAIN vec THEN vec[label] + 1 ELSE 1)

\* stats.rs, Counter::inc
stats_inc(counters, counter) ==
    CASE counter.tag = "MessagesReceived" -> [counters EXCEPT !.received = @ + 1]
      [] counter.tag = "MessagesProcessed" -> [counters EXCEPT !.processed = @ + 1]
      [] counter.tag = "MessagesSent" -> [counters EXCEPT !.sent = @ + 1]
      [] OTHER -> [counters EXCEPT !.ban_reason = IncLabel(@, counter.reason[1])]

\* prometheus.rs, Counter::inc: the fourth kind is unreachable!()
prometheus_inc(counters, counter) ==
    CASE counter.tag = "MessagesReceived" ->
            [panic |-> "no", counters |-> [counters EXCEPT !.received = @ + 1]]
      [] counter.tag = "MessagesProcessed" ->
            [panic |-> "no", counters |-> [counters EXCEPT !.processed = @ + 1]]
      [] counter.tag = "MessagesSent" ->
            [panic |-> "no", counters |-> [counters EXCEPT !.sent = @ + 1]]
      [] OTHER -> [panic |-> "unreachable!", counters |-> counters]

\* process: Measure::inc for every ban event, sent and then its reason
RECURSIVE CountBanEvents(_, _)
CountBanEvents(counters, ban_events) ==
    IF ban_events = <<>> THEN counters
    ELSE CountBanEvents(
             stats_inc(stats_inc(counters, MessagesSent), BanReasonOf(Head(ban_events))),
             Tail(ban_events))

\* process: the increments between read_input and tick
CountMessage(counters, ban_events) ==
    stats_inc(CountBanEvents(stats_inc(counters, MessagesReceived), ban_events),
              MessagesProcessed)

-----------------------------------------------------------------------------
(* main.rs: what relayer_message_consumer holds.                           *)

\* error_rate; the messages sent to the relayer message channel; the
\* reconnection requests sent; whether the consumer has panicked; and the
\* payload of the last NATS message
Consumer(error_rate, forwarded, requests, panic, payload) ==
    [error_rate |-> error_rate, forwarded |-> forwarded,
     requests |-> requests, panic |-> panic, payload |-> payload]

\* the JSON text null
NullPayload == <<"null">>

\* serde_json::from_slice::<RelayerMessage> of main.rs, where RelayerMessage
\* is a unit struct: serde reads a unit struct from null and nothing else
from_slice(payload) == IF payload = NullPayload THEN Ok(<<>>) ELSE Err

\* error_rate += 1; if error_rate < 10 { continue } else { error_rate = 0 }
ErrorRateLimit == 10
NextErrorRate(error_rate) ==
    IF error_rate + 1 < ErrorRateLimit THEN error_rate + 1 ELSE 0

-----------------------------------------------------------------------------
(* buckets.rs: BucketPriorityQueue, a PriorityQueue<BucketName, u128> whose *)
(* priorities are readings of the system clock in milliseconds.  The queue *)
(* is a function from the names it holds to their priorities.              *)

\* a reading of SystemTime::now() that lies before UNIX_EPOCH
BeforeEpoch == -1

queue_new == <<>>

\* readings are milliseconds relative to UNIX_EPOCH
current_time(reading) == IF reading >= 0 THEN reading ELSE 0

\* change_priority: nothing happens to a name the queue does not hold
update(self, bucket_name, time) ==
    IF bucket_name \in DOMAIN self THEN [self EXCEPT ![bucket_name] = time] ELSE self

get_priority(self, bucket_name) ==
    IF bucket_name \in DOMAIN self THEN self[bucket_name] ELSE 0

\* the names that hold the greatest priority
Greatest(self) ==
    {k \in DOMAIN self : \A j \in DOMAIN self : self[j] <= self[k]}

Without(self, bucket_name) ==
    [j \in DOMAIN self \ {bucket_name} |-> self[j]]

\* the results peek can give: the queue does not say which of several
\* names of equal priority it yields
peek(self) ==
    IF DOMAIN self = {} THEN {None}
    ELSE {Some(<<k, self[k]>>) : k \in Greatest(self)}

\* the results pop can give, each with the queue it leaves
pop(self) ==
    IF DOMAIN self = {} THEN {[self |-> self, returned |-> None]}
    ELSE {[self |-> Without(self, k), returned |-> Some(<<k, self[k]>>)]
          : k \in Greatest(self)}

\* push: a name already held gets the new priority
push(self, bucket_name, time) ==
    [j \in DOMAIN self \cup {bucket_name} |->
        IF j = bucket_name THEN time ELSE self[j]]

remove(self, bucket_name) ==
    IF bucket_name \in DOMAIN self
    THEN [self |-> Without(self, bucket_name),
          returned |-> Some(<<bucket_name, self[bucket_name]>>)]
    ELSE [self |-> self, returned |-> None]

-----------------------------------------------------------------------------
(* main.rs: NATSConnection and the static CID.  `lost` is the set of cids   *)
(* whose connection does not answer (flush_timeout and publish fail on it), *)
(* `reachable` whether the server accepts a new connection.                 *)
NATSConnection(cid, connection) == [cid |-> cid, connection |-> connection]

\* NATSConnection::new: the cid is CID.load(), there is no connection yet
NATSConnection_new(counter) == NATSConnection(counter, None)

\* nats::Connection::flush_timeout(10 s) on the connection of `self`
flush_timeout(self, lost) == self.cid \notin lost

\* NATSConnection::connect: CID.fetch_add(1), cid = CID.load(), then the
\* connection attempt and its flush.  The callers (main before it spawns
\* the tasks, events_processing afterwards) never run it concurrently, so
\* the load reads the value the fetch_add wrote.
connect(counter, reachable) ==
    [CID |-> counter + 1,
     ok  |-> reachable,
     val |-> NATSConnection(counter + 1, Some("nats")),
     panic |-> "no"]

\* NATSConnection::try_connect: keep a connection that answers, otherwise
\* connect anew; self.connection.as_ref().unwrap() panics on None
try_connect(self, counter, lost, reachable) ==
    IF is_none(self.connection)
    THEN [CID |-> counter, ok |-> FALSE, val |-> self, panic |-> "unwrap"]
    ELSE IF flush_timeout(self, lost)
         THEN [CID |-> counter, ok |-> TRUE, val |-> self, panic |-> "no"]
         ELSE connect(counter, reachable)

\* NATSConnection::nats_check_connection: the flush of the connection
nats_check_connection(self, lost) == flush_timeout(self, lost)

\* mpsc::Sender::blocking_send: it blocks the calling thread until the
\* channel has room, and panics when that thread is driving a runtime
blocking_send(in_runtime, queue, event) ==
    IF in_runtime
    THEN [queue |-> queue, panic |-> "blocking_send"]
    ELSE [queue |-> Append(queue, event), panic |-> "no"]

\* events_processing acts on every event whatever its cid
cid_any(cid, nats_connection) == TRUE

\* events_processing: `if cid == nats_connection.cid`
cid_is_current(cid, nats_connection) == cid = nats_connection.cid

\* ConnectionEvent::{NewConnectionRequest, ConnectionReestablished,
\* ConnectionLost, ConnectionClosed}(cid)
ConnectionEvent(kind, cid) == [event |-> kind, cid |-> cid]

\* main, before the first connect: the statics, the channels, no task yet
service_new ==
    [CID |-> 0,
     actual_connection |-> NATSConnection_new(0),
     connection_event |-> <<>>,
     lost |-> {},
     reachable |-> TRUE,
     main |-> "connect",
     events_processing |-> None,
     replaced |-> <<>>,
     outages |-> 0,
     events_stream |-> <<>>,
     sent |-> 0,
     message_producer |-> None,
     published |-> <<>>,
     SIGNAL |-> 0,
     stop |-> FALSE,
     handled |-> {}]

-----------------------------------------------------------------------------
(* The state machine.                                                      *)

Install(self) ==
    /\ config' = self.config
    /\ next_check' = self.next_check
    /\ user_clients' = self.user_clients
    /\ user_addresses' = self.user_addresses
    /\ user_tokens' = self.user_tokens
    /\ ban_list' = self.ban_list
    /\ leaky_buckets' = self.leaky_buckets
    /\ panicked' = self.panic

\* the engine after a read_input call, and what the call returned
Deliver(returned) ==
    /\ Install(returned.self)
    /\ banned' = returned.banned
    /\ ban_reasons' = returned.ban_reasons

\* the state after Banhammer::new with one of the given configurations
InitWith(configs) ==
    /\ \E cfg \in configs :
         LET self == new(cfg)
         IN  /\ config = self.config
             /\ next_check = self.next_check
             /\ user_clients = self.user_clients
             /\ user_addresses = self.user_addresses
             /\ user_tokens = self.user_tokens
             /\ ban_list = self.ban_list
             /\ leaky_buckets = self.leaky_buckets
             /\ panicked = self.panic
    /\ elapsed = 0
    /\ op = "new"
    /\ input = NoRecord
    /\ banned = NoBans
    /\ ban_reasons = <<>>
    /\ metrics = [stats |-> StatsCounters, prometheus |-> PrometheusCounters]
    /\ nats = Consumer(0, 0, 0, "no", <<>>)
    /\ bucket_queue = [queue |-> queue_new, clock |-> BeforeEpoch, returned |-> None]
    /\ bucket_call = [key |-> None, value |-> None, now |-> 0, returned |-> None]
    /\ service = service_new

Init == InitWith(Configs)

\* the driver reads a record that does not parse: logged and skipped
Malformed(rec) ==
    /\ panicked = "no"
    /\ ~from_str(rec).ok
    /\ op' = "malformed"
    /\ input' = rec
    /\ banned' = NoBans
    /\ ban_reasons' = <<>>
    /\ UNCHANGED <<config, next_check, user_clients, user_addresses, user_tokens,
                   ban_list, leaky_buckets, elapsed, panicked, metrics, nats, bucket_queue,
                   bucket_call, service>>

\* the driver reads a record that parses and hands it to read_input
ReadInput(rec) ==
    /\ panicked = "no"
    /\ TotalTx < MaxMessages
    /\ from_str(rec).ok
    /\ Deliver(read_input(Self, from_str(rec).val))
    /\ op' = "read_input"
    /\ input' = rec
    /\ UNCHANGED <<elapsed, metrics, nats, bucket_queue, bucket_call, service>>

\* the driver calls tick(time); time.elapsed() never decreases
Tick(e) ==
    /\ panicked = "no"
    /\ e >= elapsed
    /\ Install(tick(Self, e))
    /\ elapsed' = e
    /\ op' = "tick"
    /\ input' = NoRecord
    /\ banned' = NoBans
    /\ ban_reasons' = <<>>
    /\ UNCHANGED <<metrics, nats, bucket_queue, bucket_call, service>>

Next ==
    \/ \E rec \in Records : Malformed(rec)
    \/ \E rec \in Records : ReadInput(rec)
    \/ \E e \in Instants : Tick(e)

Spec == Init /\ [][Next]_vars

-----------------------------------------------------------------------------
(* Vocabulary of the claims.                                               *)

\* the message of the last read_input call, and whether that call returned
LastMsg == from_str(input).val
Returned_ == op = "read_input" /\ panicked = "no"

\* the principals a message identifies, with the slot of ban_progression's
\* tuple that reports each
PrincipalsOf(m) ==
    {[slot |-> "client", kind |-> "IP", value |-> BucketNameValue("IP", m.client)],
     [slot |-> "address", kind |-> "Address", value |-> BucketNameValue("Address", m.from)]}
    \cup (IF is_some(m.token)
          THEN {[slot |-> "token", kind |-> "Token",
                 value |-> BucketNameValue("Token", unwrap(m.token))]}
          ELSE {})

\* the error kind a message's error is charged to (none for no error and
\* for a relayer error)
ErrorKindOf(maybe_error) ==
    IF is_none(maybe_error) THEN None
    ELSE CASE unwrap(maybe_error).tag \in {"ErrIncorrectNonce", "InvalidECDSA"} -> Some("IncorrectNonce")
           [] unwrap(maybe_error).tag = "MaxGas" -> Some("MaxGas")
           [] unwrap(maybe_error).tag = "Revert" -> Some("Reverts")
           [] OTHER -> None

ReasonOf(error_kind) ==
    CASE error_kind = "IncorrectNonce" -> "TooManyIncorrectNonce"
      [] error_kind = "MaxGas" -> "TooManyMaxGas"
      [] error_kind = "Reverts" -> "TooManyReverts"
      [] OTHER -> "UsedExcessiveGas"

ConfiguredThreshold(cfg, error_kind) ==
    CASE error_kind = "IncorrectNonce" -> cfg.incorrect_nonce_threshold
      [] error_kind = "MaxGas" -> cfg.max_gas_threshold
      [] OTHER -> cfg.revert_threshold

\* amounts of every kind as gas limbs, so that they compare
Units(n) == Gas(0, 0, n)
GasGeq(a, b) == ~GasGt(b, a)

\* the bucket updates the dispatch of one message consists of: for every
\* principal the excessive-gas bucket, and the bucket of the error's kind
UpdatesOf(m, cfg) ==
    LET mult == IF is_some(m.token) THEN cfg.token_multiplier ELSE 1
        kind == ErrorKindOf(m.error)
    IN  {[slot |-> p.slot,
          key |-> BucketName(p.kind, p.value, "UsedExcessiveGas"),
          amount |-> NEAR_GAS_COUNTER,
          threshold |-> TeraGas(cfg.excessive_gas_threshold * mult)] : p \in PrincipalsOf(m)}
        \cup (IF is_some(kind)
              THEN {[slot |-> p.slot,
                     key |-> BucketName(p.kind, p.value, unwrap(kind)),
                     amount |-> Units(1),
                     threshold |-> Units(ConfiguredThreshold(cfg, unwrap(kind)) * mult)]
                    : p \in PrincipalsOf(m)}
              ELSE {})

StoredFill(store, key) ==
    IF store[key].kind = "UsedExcessiveGas" THEN store[key].val ELSE Units(store[key].val)

ProposedFill(store, key, amount) ==
    IF key \in DOMAIN store THEN GasAdd(StoredFill(store, key), amount) ELSE amount

EventFor(u) == Some(ReasonOf(u.key.error))

\* the bucket configuration of the documented scenarios; the engine holds
\* no BucketConfig
BucketConfig == [base_size |-> 1, leak_rate |-> 100000, overflow_size |-> 10, retention |-> 10]

-----------------------------------------------------------------------------
(* C1: the overflow test is inclusive and decides the ban event: for every *)
(* bucket update of a read_input call that returns, the call reports a ban *)
(* event for the key exactly when the proposed fill (stored fill plus      *)
(* increment, or the increment for an absent key) is >= the threshold.     *)
C1_InclusiveOverflowDecidesBan ==
    [][(op' = "read_input" /\ panicked' = "no") =>
         \A u \in UpdatesOf(LastMsg', config) :
            GasGeq(ProposedFill(leaky_buckets, u.key, u.amount), u.threshold)
            <=> (banned'[u.slot] = EventFor(u))]_vars

(* C2: after read_input returns a ban event for key K, the store holds K   *)
(* with fill equal to the configured base_size.                            *)
C2_BanResetsToBaseSize ==
    Returned_ =>
        \A p \in PrincipalsOf(LastMsg) :
           \A error_kind \in Arithmetic :
              banned[p.slot] = Some(ReasonOf(error_kind)) =>
                 LET K == BucketName(p.kind, p.value, error_kind)
                 IN  /\ K \in DOMAIN leaky_buckets
                     /\ StoredFill(leaky_buckets, K) = Units(BucketConfig.base_size)

(* C3: after a read_input call that returns an empty ban list, every       *)
(* bucket of the call's updates that the store holds has a fill strictly   *)
(* below its threshold (token multiplier included).                        *)
C3_NoBanMeansBelowThreshold ==
    (Returned_ /\ ban_reasons = <<>>) =>
        \A u \in UpdatesOf(LastMsg, config) :
           u.key \in DOMAIN leaky_buckets =>
              GasGt(u.threshold, StoredFill(leaky_buckets, u.key))

-----------------------------------------------------------------------------
(* The records of a principal before and after a call.                     *)

KeyOf(m, slot) ==
    CASE slot = "client" -> m.client
      [] slot = "address" -> m.from
      [] OTHER -> unwrap(m.token)

ActiveMap(slot) ==
    CASE slot = "client" -> user_clients
      [] slot = "address" -> user_addresses
      [] OTHER -> user_tokens

BanMap(slot) ==
    CASE slot = "client" -> ban_list.clients
      [] slot = "address" -> ban_list.addresses
      [] OTHER -> ban_list.tokens

ProgressIn(map, key) ==
    IF key \in DOMAIN map THEN map[key].ban_progress ELSE BanProgressDefault

CountIn(map, key) == IF key \in DOMAIN map THEN map[key].transaction_count ELSE 0

Counter(progress, error_kind) ==
    CASE error_kind = "IncorrectNonce" -> progress.incorrect_nonce
      [] error_kind = "MaxGas" -> progress.max_gas
      [] OTHER -> Len(progress.revert)

TokenMultiplierOf(m, cfg) == IF is_some(m.token) THEN cfg.token_multiplier ELSE 1

\* whether the gas a principal has accumulated, with this message's, is
\* over the excessive-gas threshold
GasOver(progress, m, cfg) ==
    GasGt(GasAdd(progress.excessive_gas, NEAR_GAS_COUNTER),
          TeraGas(cfg.excessive_gas_threshold * TokenMultiplierOf(m, cfg)))

-----------------------------------------------------------------------------
(* C4: every threshold applied while processing a message with a token is  *)
(* the configured threshold times token_multiplier (the gas threshold also *)
(* times 10^12), for the IP, the address and the token alike, and the      *)
(* plain configured threshold when the message has no token: the gas ban,  *)
(* the error ban and the overflow of the Reverts bucket are decided        *)
(* against exactly these values.                                           *)
C4_TokenMultiplierOnEveryThreshold ==
    [][(op' = "read_input" /\ panicked' = "no") =>
         LET m == LastMsg'
             mult == TokenMultiplierOf(m, config)
             kind == ErrorKindOf(m.error)
         IN  \A p \in PrincipalsOf(m) :
                LET key == KeyOf(m, p.slot)
                    before == ProgressIn(ActiveMap(p.slot), key)
                    over == GasOver(before, m, config)
                    K == BucketName(p.kind, p.value, "Reverts")
                IN  /\ key \notin DOMAIN BanMap(p.slot) =>
                          /\ (banned'[p.slot] = Some("UsedExcessiveGas")) <=> over
                          /\ (~over /\ is_some(kind)) =>
                                ((banned'[p.slot] = Some(ReasonOf(unwrap(kind))))
                                 <=> (Counter(before, unwrap(kind)) + 1
                                      >= ConfiguredThreshold(config, unwrap(kind)) * mult))
                    /\ (kind = Some("Reverts") /\ K \in DOMAIN leaky_buckets) =>
                          leaky_buckets'[K].val
                          = (IF leaky_buckets[K].val + 1 > config.revert_threshold * mult
                             THEN 0 ELSE 1)]_vars

\* a message with a token has left a principal unbanned whose revert count
\* has reached the configured, unmultiplied threshold
C4_Witness ==
    /\ Returned_
    /\ is_some(LastMsg.token)
    /\ config.token_multiplier > 1
    /\ banned = NoBans
    /\ LastMsg.from \in DOMAIN user_addresses
    /\ Len(user_addresses[LastMsg.from].ban_progress.revert) >= config.revert_threshold

-----------------------------------------------------------------------------
TokenStore(store) == [k \in {x \in DOMAIN store : x.kind = "Token"} |-> store[k]]

\* the records of a map other than the one under key are as they were
OthersUntouched(map_before, map_after, keys) ==
    \A k \in (DOMAIN map_before \cup DOMAIN map_after) \ keys :
        /\ k \in DOMAIN map_before
        /\ k \in DOMAIN map_after
        /\ map_after[k] = map_before[k]

(* C5: a read_input call processes exactly the principals of its message:  *)
(* the IP and the address on every message, the token when one is present. *)
(* Without a token no Token-keyed bucket or record is created, updated or  *)
(* removed; records and buckets of other principals are left alone; every  *)
(* principal of the message has its transaction counted once.              *)
C5_ExactlyTheMessagePrincipals ==
    [][op' = "read_input" =>
         LET m == LastMsg'
             token_keys == IF is_some(m.token) THEN {unwrap(m.token)} ELSE {}
             values == {p.value : p \in PrincipalsOf(m)}
         IN  /\ is_none(m.token) =>
                   /\ user_tokens' = user_tokens
                   /\ ban_list'.tokens = ban_list.tokens
                   /\ TokenStore(leaky_buckets') = TokenStore(leaky_buckets)
             /\ OthersUntouched(user_clients, user_clients', {m.client})
             /\ OthersUntouched(ban_list.clients, ban_list'.clients, {m.client})
             /\ OthersUntouched(user_addresses, user_addresses', {m.from})
             /\ OthersUntouched(ban_list.addresses, ban_list'.addresses, {m.from})
             /\ OthersUntouched(user_tokens, user_tokens', token_keys)
             /\ OthersUntouched(ban_list.tokens, ban_list'.tokens, token_keys)
             /\ OthersUntouched(leaky_buckets, leaky_buckets',
                                {k \in DOMAIN leaky_buckets' : k.value \in values})
             /\ panicked' = "no" =>
                   \A p \in PrincipalsOf(m) :
                      LET key == KeyOf(m, p.slot)
                      IN  CountIn(ActiveMap(p.slot)', key) + CountIn(BanMap(p.slot)', key)
                          = CountIn(ActiveMap(p.slot), key) + CountIn(BanMap(p.slot), key) + 1]_vars

\* a message without a token has been processed while token records and a
\* Token-keyed bucket exist
C5_Witness ==
    /\ Returned_
    /\ is_none(LastMsg.token)
    /\ user_tokens # <<>>
    /\ TokenStore(leaky_buckets) # <<>>

-----------------------------------------------------------------------------
(* C6: every read_input call that returns has updated the UsedExcessiveGas *)
(* bucket of each principal of the message with 202_651_902_028_573: the   *)
(* store then holds that key, with fill equal to the previous fill plus    *)
(* the constant, or to base_size if that reached the threshold.            *)
C6_GasBucketAlwaysUpdated ==
    [][(op' = "read_input" /\ panicked' = "no") =>
         \A u \in UpdatesOf(LastMsg', config) :
            u.key.error = "UsedExcessiveGas" =>
               /\ u.key \in DOMAIN leaky_buckets'
               /\ StoredFill(leaky_buckets', u.key)
                  = (IF GasGeq(ProposedFill(leaky_buckets, u.key, u.amount), u.threshold)
                     THEN Units(BucketConfig.base_size)
                     ELSE ProposedFill(leaky_buckets, u.key, u.amount))]_vars

-----------------------------------------------------------------------------
\* the reason a principal is banned with in this call, if it is
NewlyBanned(map_before, map_after, key) ==
    IF key \in DOMAIN map_after /\ key \notin DOMAIN map_before
    THEN map_after[key].banned ELSE <<>>

(* C7: the list read_input returns holds the events of the IP, then those  *)
(* of the address, then those of the token: it is the reason the client    *)
(* was banned with in this call, followed by the address's, followed by    *)
(* the token's.  A principal has at most one event in a call, so a gas     *)
(* event is never behind an error event of the same principal.             *)
C7_EventOrder ==
    [][(op' = "read_input" /\ panicked' = "no") =>
         LET m == LastMsg'
         IN  ban_reasons'
             = NewlyBanned(ban_list.clients, ban_list'.clients, m.client)
               \o NewlyBanned(ban_list.addresses, ban_list'.addresses, m.from)
               \o (IF is_some(m.token)
                   THEN NewlyBanned(ban_list.tokens, ban_list'.tokens, unwrap(m.token))
                   ELSE <<>>)]_vars

\* one call has banned the client and the address for different reasons
C7_Witness ==
    /\ Returned_
    /\ is_some(banned.client)
    /\ is_some(banned.address)
    /\ banned.client # banned.address
    /\ Len(ban_reasons) >= 2

-----------------------------------------------------------------------------
ErrorStore(store) ==
    [k \in {x \in DOMAIN store : x.error # "UsedExcessiveGas"} |-> store[k]]

ErrorCounters(progress) == <<progress.incorrect_nonce, progress.max_gas, progress.revert>>

IsRelayer(maybe_error) == is_some(maybe_error) /\ unwrap(maybe_error).tag = "Relayer"

(* C8: a message whose error is Relayer(_) returns, changes no bucket of   *)
(* an error kind and no error counter of its principals, and yields no     *)
(* event other than UsedExcessiveGas.                                      *)
C8_RelayerTouchesNoErrorBucket ==
    [][(op' = "read_input" /\ IsRelayer(LastMsg'.error)) =>
         LET m == LastMsg'
         IN  /\ panicked' = "no"
             /\ ErrorStore(leaky_buckets') = ErrorStore(leaky_buckets)
             /\ \A p \in PrincipalsOf(m) :
                   LET key == KeyOf(m, p.slot)
                       after == IF key \in DOMAIN ActiveMap(p.slot)'
                                THEN ActiveMap(p.slot)' ELSE BanMap(p.slot)'
                   IN  /\ ErrorCounters(ProgressIn(after, key))
                          = ErrorCounters(ProgressIn(ActiveMap(p.slot), key))
                       /\ banned'[p.slot] \in {None, Some("UsedExcessiveGas")}
             /\ \A i \in 1..Len(ban_reasons') : ban_reasons'[i] = "UsedExcessiveGas"]_vars

\* a relayer error has been processed for a client that has reverts counted
\* and an error bucket in the store
C8_Witness ==
    /\ Returned_
    /\ IsRelayer(LastMsg.error)
    /\ LastMsg.client \in DOMAIN user_clients
    /\ user_clients[LastMsg.client].ban_progress.revert # <<>>
    /\ ErrorStore(leaky_buckets) # <<>>

-----------------------------------------------------------------------------
(* C9: count-to-ban is exact: a message with an IncorrectNonce, MaxGas or  *)
(* Revert error yields the ban event of that kind for a principal of the   *)
(* message (not yet banned, not over the gas threshold) exactly when it is *)
(* the T-th such message counted for the principal or a later one, T being *)
(* the configured threshold times the token multiplier when the message    *)
(* has a token.                                                            *)
C9_CountToBanExact ==
    [][op' = "read_input" =>
         LET m == LastMsg'
             kind == ErrorKindOf(m.error)
         IN  is_some(kind) =>
                \A p \in PrincipalsOf(m) :
                   LET key == KeyOf(m, p.slot)
                       before == ProgressIn(ActiveMap(p.slot), key)
                       T == ConfiguredThreshold(config, unwrap(kind)) * TokenMultiplierOf(m, config)
                   IN  (key \notin DOMAIN BanMap(p.slot) /\ ~GasOver(before, m, config)) =>
                          ((banned'[p.slot] = Some(ReasonOf(unwrap(kind))))
                           <=> (Counter(before, unwrap(kind)) + 1 >= T))]_vars

-----------------------------------------------------------------------------
EngineState == [Self EXCEPT !.panic = panicked]

AsIncorrectNonce(rec) == [rec EXCEPT !.error = ERR_INCORRECT_NONCE]

(* C10: a record whose error is "ERR_INVALID_ECDSA_SIGNATURE" is decoded   *)
(* into the IncorrectNonce class and has the effect on the engine, and the *)
(* events, of the same record with "ERR_INCORRECT_NONCE".                  *)
C10_InvalidEcdsaChargedAsNonce ==
    [][(op' = "read_input" /\ input'.error = ERR_INVALID_ECDSA_SIGNATURE) =>
         LET twin == read_input(Self, from_str(AsIncorrectNonce(input')).val)
         IN  /\ ErrorKindOf(LastMsg'.error) = Some("IncorrectNonce")
             /\ EngineState' = twin.self
             /\ banned' = twin.banned
             /\ ban_reasons' = twin.ban_reasons]_vars


-----------------------------------------------------------------------------
(* Retention of bucket keys across ticks.                                  *)

\* C11: a tick removes every bucket key whose retention deadline has passed.
\* Every key in the store at a tick was last observed no later than that
\* tick, so when the next tick comes more than `retention` later all of
\* them are past their deadline and the store must be empty after it.
C11_TickEvictsStaleKeys ==
    [][(op = "tick" /\ op' = "tick")
         => \A retention \in 0..MaxTimeframe :
                elapsed' - elapsed > retention => leaky_buckets' = <<>>]_vars

-----------------------------------------------------------------------------
(* Stored fills.                                                           *)

\* C12: a stored fill is never below zero and never wrapped: every step
\* leaves each fill between 0 and the old fill plus the unit increment, and
\* a decrease larger than the current fill leaves exactly 0.
C12_FillSaturatesAtZero ==
    [][leaky_buckets' # leaky_buckets =>
         \A K \in DOMAIN leaky_buckets' :
            LET after == StoredFill(leaky_buckets', K)
            IN  /\ GasGeq(after, Units(0))
                /\ GasGeq(ProposedFill(leaky_buckets, K, Units(1)), after)
                /\ (K \in DOMAIN leaky_buckets
                     /\ GasGt(StoredFill(leaky_buckets, K), after))
                      => after = Units(0)]_vars

\* a message made process_bucket decrease a key by more than it held
C12_Witness ==
    /\ op = "read_input"
    /\ panicked = "no"
    /\ \E K \in DOMAIN leaky_buckets : StoredFill(leaky_buckets, K) = Units(0)


-----------------------------------------------------------------------------
(* Decoding of the records: a specification that reads records of a wider  *)
(* set of token and error texts until the first of them is processed.      *)

Token1 == Str(1, "d")
Token45 == Str(TokenLenLong + 1, "e")
\* 22 two-byte characters: 44 bytes
TokenWide22 == Str(TokenLenLong \div 2, TwoByteChar)
\* 43 characters of which one takes two bytes: 44 bytes
TokenWide43 == Str(TokenLenShort - 1, "f") \o Str(1, TwoByteChar)
\* 44 characters of which one takes two bytes: 45 bytes
TokenWide44 == Str(TokenLenShort, "g") \o Str(1, TwoByteChar)

DecodeTokens ==
    {<<>>, Token1, Token42, Token43, Token44, Token45,
     TokenWide22, TokenWide43, TokenWide44}

\* error texts around the arms of deserialize_error: the exact texts, the
\* relayer pattern alone and inside other text, an exact text followed by
\* the pattern, an exact text with more text, and a text that only shares
\* a prefix with the pattern
DecodeErrors ==
    {<<>>, ERR_INCORRECT_NONCE, ERR_MAX_GAS, ERR_INVALID_ECDSA_SIGNATURE,
     ERR_REVERT, ERR_RELAYER, RELAYER_ERR_PATTERN,
     ERR_INCORRECT_NONCE \o RELAYER_ERR_PATTERN,
     ERR_MAX_GAS \o RELAYER_ERR_PATTERN,
     ERR_INCORRECT_NONCE \o <<" ">>,
     <<"httpsgithub.comaurora-is-nearaurora-relayer">>}

DecodeRecords ==
    {Record(Sender(c, Address1, t), e) :
        c \in {IP1, IP2}, t \in DecodeTokens, e \in DecodeErrors}

NextDecode ==
    \/ \E rec \in DecodeRecords : TotalTx = 0 /\ Malformed(rec)
    \/ \E rec \in DecodeRecords : TotalTx = 0 /\ ReadInput(rec)

SpecDecode == Init /\ [][NextDecode]_vars

RecordRead == op' \in {"read_input", "malformed"}

\* the number of characters of a text
RECURSIVE chars(_)
chars(s) == IF s = <<>> THEN 0 ELSE Head(s).times + chars(Tail(s))

Dropped ==
    /\ op' = "malformed"
    /\ EngineState' = EngineState
    /\ ban_reasons' = <<>>

IsRelayerText(e) == contains(e, RELAYER_ERR_PATTERN)

\* C15: the error text of every record read is classified, and never makes
\* the record malformed: the empty text is no error; a text containing the
\* relayer pattern is Relayer(text), whatever else it contains; otherwise
\* the two exact texts are ErrIncorrectNonce and MaxGas; every other text
\* is Revert(text). The engine is called with that classification.
C15_ErrorDecodingTotal ==
    [][RecordRead =>
         LET e == input'.error
             d == deserialize_error(e)
         IN  /\ d.ok
             /\ e = <<>> => d.val = None
             /\ IsRelayerText(e) => d.val = Some(Relayer(e))
             /\ (~IsRelayerText(e) /\ e = ERR_INCORRECT_NONCE)
                   => d.val = Some(ErrIncorrectNonce)
             /\ (~IsRelayerText(e) /\ e = ERR_MAX_GAS) => d.val = Some(MaxGas)
             /\ (e # <<>> /\ ~IsRelayerText(e)
                    /\ e \notin {ERR_INCORRECT_NONCE, ERR_MAX_GAS})
                   => d.val = Some(Revert(e))
             /\ op' = "malformed" => ~deserialize_token(input'.token).ok
             /\ op' = "read_input" => LastMsg'.error = d.val]_vars

\* a text that starts with an exact text and goes on with the relayer
\* pattern was handed to the engine as a relayer error
C15_Witness ==
    /\ op = "read_input"
    /\ input.error = ERR_INCORRECT_NONCE \o RELAYER_ERR_PATTERN
    /\ LastMsg.error = Some(Relayer(input.error))

-----------------------------------------------------------------------------
(* What the returned events tell.                                          *)

\* C16: every returned event is the key (principal kind, principal value,
\* error kind) of the bucket that overflowed. One call overflows a bucket
\* at most once and the principals of a message have different keys, so
\* the events of one returned list are pairwise different: the list alone
\* tells the banned principals of the message apart.
C16_EventsIdentifyPrincipals ==
    Returned_ =>
        \A i, j \in DOMAIN ban_reasons :
            i # j => ban_reasons[i] # ban_reasons[j]

\* C17: no suppression of principals that are already banned. When the
\* configured base_size is not below the threshold of a key, a message
\* that observes a key its principal has been banned for yields that ban
\* event again.
C17_BanReEmittedWhenMisconfigured ==
    [][op' = "read_input" =>
         LET m == LastMsg'
             kind == ErrorKindOf(m.error)
         IN  is_some(kind) =>
                \A p \in PrincipalsOf(m) :
                   LET key == KeyOf(m, p.slot)
                       T == ConfiguredThreshold(config, unwrap(kind))
                            * TokenMultiplierOf(m, config)
                   IN  (/\ key \in DOMAIN BanMap(p.slot)
                        /\ BanMap(p.slot)[key].banned = Some(ReasonOf(unwrap(kind)))
                        /\ BucketConfig.base_size >= T)
                       => banned'[p.slot] = Some(ReasonOf(unwrap(kind)))]_vars

\* whether the client of the last message has been counted n times
NthOfItsIp(n) == CountIn(user_clients, LastMsg.client) + CountIn(ban_list.clients, LastMsg.client) = n

\* C19: with excessive_gas_threshold = 3 and no token, the excessive-gas
\* event of an IP comes with the third message of that IP and with no
\* earlier one, and after the event the (IP, UsedExcessiveGas) bucket is
\* stored with fill base_size; the gas is compared against 3 * 10^12.
C19_GasBanOnThirdMessage ==
    (/\ Returned_
     /\ config.excessive_gas_threshold = GasTight
     /\ is_none(LastMsg.token))
    => LET key == BucketName("IP", BucketNameValue("IP", LastMsg.client), "UsedExcessiveGas")
       IN  /\ NearGasThreshold(config, LastMsg.token) = TeraGas(GasTight)
           /\ (banned.client = Some("UsedExcessiveGas")) <=> NthOfItsIp(GasTight)
           /\ banned.client = Some("UsedExcessiveGas")
                 => /\ key \in DOMAIN leaky_buckets
                    /\ StoredFill(leaky_buckets, key) = Units(BucketConfig.base_size)

-----------------------------------------------------------------------------
(* The driver's loop with its counters: every pass reads a record, and for *)
(* one that parses calls read_input, counts, and calls tick.               *)

MaxIncs == 1

\* process: after read_input has returned (or has panicked)
Settle(returned, e) ==
    /\ banned' = returned.banned
    /\ ban_reasons' = returned.ban_reasons
    /\ IF returned.self.panic = "no"
       THEN /\ metrics' = [metrics EXCEPT
                              !.stats = CountMessage(@, returned.ban_reasons)]
            /\ Install(tick(returned.self, e))
            /\ elapsed' = e
       ELSE /\ Install(returned.self)
            /\ UNCHANGED <<metrics, elapsed>>

\* process: one pass of the loop over a record that parses
ProcessRecord(rec, e) ==
    /\ panicked = "no"
    /\ TotalTx < MaxMessages
    /\ from_str(rec).ok
    /\ e >= elapsed
    /\ Settle(read_input(Self, from_str(rec).val), e)
    /\ op' = "process"
    /\ input' = rec
    /\ UNCHANGED <<nats, bucket_queue, bucket_call, service>>

\* prometheus.rs, Measure::inc, called with any of its counter kinds
MeasureInc(counter) ==
    /\ panicked = "no"
    /\ metrics.prometheus.received + metrics.prometheus.processed
         + metrics.prometheus.sent < MaxIncs
    /\ metrics' = [metrics EXCEPT
                      !.prometheus = prometheus_inc(@, counter).counters]
    /\ panicked' = prometheus_inc(metrics.prometheus, counter).panic
    /\ op' = "inc"
    /\ input' = NoRecord
    /\ banned' = NoBans
    /\ ban_reasons' = <<>>
    /\ UNCHANGED <<config, next_check, user_clients, user_addresses, user_tokens,
                   ban_list, leaky_buckets, elapsed, nats, bucket_queue,
                   bucket_call, service>>

NextProcess ==
    \/ \E rec \in Records : Malformed(rec)
    \/ \E rec \in Records : \E e \in Instants : ProcessRecord(rec, e)
    \/ \E counter \in {MessagesReceived, MessagesProcessed, MessagesSent,
                        BanReasonUnit} : MeasureInc(counter)

SpecProcess == Init /\ [][NextProcess]_vars

Occurrences(seq, x) == Cardinality({i \in DOMAIN seq : seq[i] = x})
LabelCount(vec, label) == IF label \in DOMAIN vec THEN vec[label] ELSE 0

\* C18: a pass over a record that parses adds one to received and one to
\* processed, and for every returned ban event one to sent and one to the
\* ban-reason counter of that event; a malformed record changes no
\* counter; and an increment of any counter kind does not fail.
C18_MetricsAccounting ==
    [][/\ op' = "process" =>
            /\ metrics'.stats.received = metrics.stats.received + 1
            /\ metrics'.stats.processed = metrics.stats.processed + 1
            /\ metrics'.stats.sent = metrics.stats.sent + Len(ban_reasons')
            /\ \A label \in DOMAIN metrics'.stats.ban_reason :
                   metrics'.stats.ban_reason[label]
                   = LabelCount(metrics.stats.ban_reason, label)
                     + Occurrences(ban_reasons', label)
            /\ \A i \in DOMAIN ban_reasons' :
                   ban_reasons'[i] \in DOMAIN metrics'.stats.ban_reason
       /\ op' = "malformed" => metrics' = metrics
       /\ op' = "inc" => panicked' = "no"]_vars

-----------------------------------------------------------------------------
(* main.rs: relayer_message_consumer, one pass of its loops per step.      *)

MaxForwarded == 2
MaxRequests == 1

\* payloads of NATS messages: null, nothing, an empty object, a relayer
\* record, a truncated record
Payloads ==
    {NullPayload, <<>>, <<"{", "}">>,
     <<"{", "client", "error", "token", "params", "}">>,
     <<"{", "client">>}

Idle ==
    /\ input' = NoRecord
    /\ banned' = NoBans
    /\ ban_reasons' = <<>>
    /\ UNCHANGED <<config, next_check, user_clients, user_addresses, user_tokens,
                   ban_list, leaky_buckets, elapsed, panicked, metrics,
                   bucket_queue, bucket_call, service>>

\* next_timeout returned a message: parse, unwrap, send to the channel
ConsumeMessage(payload) ==
    /\ nats.panic = "no"
    /\ nats.forwarded < MaxForwarded
    /\ nats' = IF from_slice(payload).ok
               THEN [nats EXCEPT !.forwarded = @ + 1, !.payload = payload]
               ELSE [nats EXCEPT !.panic = "unwrap", !.payload = payload]
    /\ op' = "nats_message"
    /\ Idle

\* next_timeout ran out: after the tenth in a row, subscribe again
ConsumeTimeout ==
    /\ nats.panic = "no"
    /\ nats' = [nats EXCEPT !.error_rate = NextErrorRate(@)]
    /\ op' = "nats_timeout"
    /\ Idle

\* subscribe failed: after the tenth failure, ask for a new connection
SubscribeError ==
    /\ nats.panic = "no"
    /\ nats.requests < MaxRequests
    /\ nats' = [nats EXCEPT !.error_rate = NextErrorRate(@),
                            !.requests = IF NextErrorRate(nats.error_rate) = 0
                                         THEN @ + 1 ELSE @]
    /\ op' = "nats_subscribe"
    /\ Idle

NextConsumer ==
    \/ \E payload \in Payloads : ConsumeMessage(payload)
    \/ ConsumeTimeout
    \/ SubscribeError

SpecConsumer == Init /\ [][NextConsumer]_vars

\* C13: a malformed record is dropped and nothing else happens: the engine
\* is as it was, no ban event comes of it, the process has not halted and
\* the consumer goes on to later records. This for the record the stdin
\* driver reads and for the payload the NATS consumer receives.
C13_MalformedRecordDropped ==
    [][(\/ op' = "malformed"
        \/ op' = "nats_message" /\ ~from_slice(nats'.payload).ok)
       => /\ EngineState' = EngineState
          /\ ban_reasons' = <<>>
          /\ panicked' = "no"
          /\ nats'.panic = "no"]_vars

-----------------------------------------------------------------------------
(* The keys of the store.                                                  *)

\* whether K is the bucket of a principal of m for the error kind of m
TouchedBy(m, K) ==
    \E p \in PrincipalsOf(m) :
        /\ K.kind = p.kind
        /\ K.value = p.value
        /\ Some(K.error) = ErrorKindOf(m.error)

\* C21: bucket names are equal only when principal kind, principal value
\* and error kind are all equal (the names of the principals of a message
\* under every error kind are pairwise distinct), and a read_input call
\* that changes the store leaves every bucket
\* alone that is not the bucket of one of its principals for its error
\* kind: the same principal under another error kind, and another
\* principal under the same error kind, keep their fill.
C21_DistinctKeysDistinctBuckets ==
    [][(op' = "read_input" /\ leaky_buckets' # leaky_buckets) =>
         LET m == LastMsg'
             names == {BucketName(p.kind, p.value, e) :
                          p \in PrincipalsOf(m), e \in Arithmetic}
         IN  /\ Cardinality(names)
                   = Cardinality(PrincipalsOf(m)) * Cardinality(Arithmetic)
             /\ \A K \in DOMAIN leaky_buckets \cup DOMAIN leaky_buckets' :
                   ~TouchedBy(m, K) =>
                      /\ K \in DOMAIN leaky_buckets
                      /\ K \in DOMAIN leaky_buckets'
                      /\ leaky_buckets'[K] = leaky_buckets[K]]_vars

\* the last message updated a bucket while the store held the same
\* principal under another error kind and another principal of that kind
\* under the same error kind
C21_Witness ==
    /\ Returned_
    /\ \E K1, K2, K3 \in DOMAIN leaky_buckets :
          /\ TouchedBy(LastMsg, K1)
          /\ K2.kind = K1.kind /\ K2.value = K1.value /\ K2.error # K1.error
          /\ K3.kind = K1.kind /\ K3.value # K1.value /\ K3.error = K1.error

-----------------------------------------------------------------------------
\* C22: on the non-overflow path of an error-kind bucket update (proposed
\* fill, the stored fill plus the increment 1, strictly below the
\* threshold) of a read_input call that returns, the store afterwards
\* holds the key with the proposed fill, so sub-threshold observations of
\* a key accumulate; no time passes between the calls, so nothing leaks.
C22_ProposedFillWritten ==
    [][(op' = "read_input" /\ panicked' = "no") =>
         \A u \in UpdatesOf(LastMsg', config) :
            (/\ u.key.error # "UsedExcessiveGas"
             /\ ~GasGeq(ProposedFill(leaky_buckets, u.key, u.amount), u.threshold)) =>
               /\ u.key \in DOMAIN leaky_buckets'
               /\ StoredFill(leaky_buckets', u.key)
                  = ProposedFill(leaky_buckets, u.key, u.amount)]_vars

-----------------------------------------------------------------------------
\* C23: the value stored under every key has the BucketValue variant of
\* the key's error kind, and no read_input call ends in the
\* unimplemented!() or todo!() branch of get_fill, decrease, Add or Sub.
C23_StoreTyping ==
    /\ \A K \in DOMAIN leaky_buckets : leaky_buckets[K].kind = K.error
    /\ panicked \notin {"unimplemented!", "todo!"}

-----------------------------------------------------------------------------
(* The operations of BucketPriorityQueue, called in any order on the names *)
(* of a few buckets while the system clock advances.                       *)

MaxClock == 2

QueueNames ==
    {BucketName("IP", BucketNameValue("IP", IP1), "Reverts"),
     BucketName("IP", BucketNameValue("IP", IP2), "Reverts"),
     BucketName("IP", BucketNameValue("IP", IP1), "MaxGas")}

\* the clock readings an operation can get: the system clock does not run
\* backwards here
Readings == {t \in {bucket_queue.clock, bucket_queue.clock + 1} : t <= MaxClock}

QueueFrame ==
    /\ input' = NoRecord
    /\ banned' = NoBans
    /\ ban_reasons' = <<>>
    /\ UNCHANGED <<config, next_check, user_clients, user_addresses, user_tokens,
                   ban_list, leaky_buckets, elapsed, panicked, metrics, nats,
                   bucket_call, service>>

QueuePush(bucket_name, t) ==
    /\ bucket_queue' = [queue |-> push(bucket_queue.queue, bucket_name, current_time(t)),
                        clock |-> t, returned |-> None]
    /\ op' = "push"
    /\ QueueFrame

QueueUpdate(bucket_name, t) ==
    /\ bucket_queue' = [queue |-> update(bucket_queue.queue, bucket_name, current_time(t)),
                        clock |-> t, returned |-> None]
    /\ op' = "update"
    /\ QueueFrame

QueueGetPriority(bucket_name) ==
    /\ bucket_queue' = [bucket_queue EXCEPT
                           !.returned = Some(get_priority(bucket_queue.queue, bucket_name))]
    /\ op' = "get_priority"
    /\ QueueFrame

QueuePeek ==
    /\ \E result \in peek(bucket_queue.queue) :
          bucket_queue' = [bucket_queue EXCEPT !.returned = result]
    /\ op' = "peek"
    /\ QueueFrame

QueuePop ==
    /\ \E result \in pop(bucket_queue.queue) :
          bucket_queue' = [bucket_queue EXCEPT !.queue = result.self,
                                               !.returned = result.returned]
    /\ op' = "pop"
    /\ QueueFrame

QueueRemove(bucket_name) ==
    /\ LET result == remove(bucket_queue.queue, bucket_name)
       IN  bucket_queue' = [bucket_queue EXCEPT !.queue = result.self,
                                                !.returned = result.returned]
    /\ op' = "remove"
    /\ QueueFrame

NextQueue ==
    \/ \E bucket_name \in QueueNames : \E t \in Readings : QueuePush(bucket_name, t)
    \/ \E bucket_name \in QueueNames : \E t \in Readings : QueueUpdate(bucket_name, t)
    \/ \E bucket_name \in QueueNames : QueueGetPriority(bucket_name)
    \/ QueuePeek
    \/ QueuePop
    \/ \E bucket_name \in QueueNames : QueueRemove(bucket_name)

SpecQueue == Init /\ [][NextQueue]_vars

\* C24: peek and pop on a queue that holds entries return an entry with
\* the oldest last-activity timestamp, so that eviction candidates come
\* stalest first.
C24_StalestFirst ==
    [][(op' \in {"peek", "pop"} /\ DOMAIN bucket_queue.queue # {}) =>
         /\ is_some(bucket_queue'.returned)
         /\ \A j \in DOMAIN bucket_queue.queue :
               unwrap(bucket_queue'.returned)[2] <= bucket_queue.queue[j]]_vars

-----------------------------------------------------------------------------
\* C25: after a read_input call that returns, every key of the bucket
\* store is in the retention index as well.
C25_StoreKeysIndexed ==
    Returned_ => DOMAIN leaky_buckets \subseteq DOMAIN bucket_queue.queue

-----------------------------------------------------------------------------
Slots == {"client", "address", "token"}

\* C26: tick fires only when the elapsed time is strictly greater than the
\* deadline: then it advances the deadline by exactly one timeframe, and
\* otherwise it leaves the whole engine state as it was.
C26_TickFiresPastDeadline ==
    [][op' = "tick" =>
         IF elapsed' > next_check
         THEN next_check' = next_check + config.timeframe
         ELSE EngineState' = EngineState]_vars

\* a tick at the deadline exactly, on an engine whose deadline was never
\* advanced and that has an active IP with ban progress to lose
C26_Witness ==
    /\ op = "tick"
    /\ next_check = config.timeframe
    /\ elapsed = next_check
    /\ \E ip \in DOMAIN user_clients :
          user_clients[ip].ban_progress # BanProgressDefault

\* C27: a tick that fires resets the ban progress of every active IP,
\* address and token and changes nothing else of them: the same
\* principals stay active with their transaction counts and
\* associations, and the ban list, the bucket store and the configuration
\* are unchanged.
C27_TickResetsProgressOnly ==
    [][(op' = "tick" /\ elapsed' > next_check) =>
         /\ \A slot \in Slots :
               /\ DOMAIN ActiveMap(slot)' = DOMAIN ActiveMap(slot)
               /\ \A k \in DOMAIN ActiveMap(slot) :
                     ActiveMap(slot)'[k]
                     = [ActiveMap(slot)[k] EXCEPT !.ban_progress = BanProgressDefault]
         /\ ban_list' = ban_list
         /\ leaky_buckets' = leaky_buckets
         /\ config' = config]_vars

\* after a tick that fired: an active IP that has sent messages has no
\* ban progress, while the ban list and the store hold entries
C27_Witness ==
    /\ op = "tick"
    /\ next_check > config.timeframe
    /\ \E ip \in DOMAIN user_clients :
          /\ user_clients[ip].transaction_count >= 1
          /\ user_clients[ip].ban_progress = BanProgressDefault
    /\ DOMAIN ban_list.addresses # {}
    /\ DOMAIN leaky_buckets # {}

-----------------------------------------------------------------------------
\* whether k is the principal of message m that ban_progression reports
\* in the given slot
HasPrincipal(m, slot, k) ==
    IF slot = "token" THEN is_some(m.token) /\ unwrap(m.token) = k
    ELSE KeyOf(m, slot) = k

\* C28: a principal is banned at most once: an IP, address or token that
\* is in the ban list stays there with the same record (reason, counters,
\* associations) through every step, read_input and tick included, and a
\* read_input call with that principal returns no ban event for it.
C28_BannedOnce ==
    [][\A slot \in Slots :
         \A k \in DOMAIN BanMap(slot) :
            /\ k \in DOMAIN BanMap(slot)'
            /\ BanMap(slot)'[k] = BanMap(slot)[k]
            /\ (op' = "read_input" /\ HasPrincipal(LastMsg', slot, k))
                  => banned'[slot] = None]_vars

\* a message from an IP that an earlier message banned has been read:
\* no event for the IP, which is in the ban list and active again
C28_Witness ==
    /\ Returned_
    /\ LastMsg.client \in DOMAIN ban_list.clients
    /\ LastMsg.client \in DOMAIN user_clients
    /\ banned.client = None

\* C29: read_input never ends in the expect of a lookup in the active
\* maps: the records of the message's IP, address and token are there
\* when increment_transaction_count, ban_progression and the moves to the
\* ban list look them up.
C29_NoMissingRecord == panicked # "expect"

\* a message whose address and token were banned and removed from the
\* active maps by earlier messages has been read, and read_input returned
C29_Witness ==
    /\ Returned_
    /\ is_some(LastMsg.token)
    /\ LastMsg.from \in DOMAIN ban_list.addresses
    /\ unwrap(LastMsg.token) \in DOMAIN ban_list.tokens
    /\ banned.address = None
    /\ banned.token = None
    /\ user_addresses[LastMsg.from].transaction_count >= 1

-----------------------------------------------------------------------------
\* C30: a read_input call that returns yields at most one ban event per
\* principal of its message: as many events as principals it reports
\* banned, none for a token the message does not have.  A principal not
\* yet banned whose accumulated gas passes the threshold with this message
\* gets the UsedExcessiveGas event alone, and the error counters of its
\* record are the ones it had before the message.
C30_OneEventPerPrincipal ==
    [][(op' = "read_input" /\ panicked' = "no") =>
         LET m == LastMsg'
         IN  /\ Len(ban_reasons')
                   = Cardinality({p \in PrincipalsOf(m) : is_some(banned'[p.slot])})
             /\ is_none(m.token) => banned'.token = None
             /\ \A p \in PrincipalsOf(m) :
                   LET key == KeyOf(m, p.slot)
                       before == ProgressIn(ActiveMap(p.slot), key)
                   IN  (key \notin DOMAIN BanMap(p.slot) /\ GasOver(before, m, config)) =>
                          /\ banned'[p.slot] = Some("UsedExcessiveGas")
                          /\ key \in DOMAIN BanMap(p.slot)'
                          /\ ErrorCounters(BanMap(p.slot)'[key].ban_progress)
                             = ErrorCounters(before)]_vars

\* a message with a countable error has tripped the gas check of its IP,
\* whose record had error progress from earlier messages
C30_Witness ==
    /\ Returned_
    /\ is_some(ErrorKindOf(LastMsg.error))
    /\ banned.client = Some("UsedExcessiveGas")
    /\ ErrorCounters(ban_list.clients[LastMsg.client].ban_progress)
         # ErrorCounters(BanProgressDefault)

-----------------------------------------------------------------------------
\* the BucketIdentity of the principals a slot reports
IdentityOf(slot) ==
    CASE slot = "client" -> "IP"
      [] slot = "address" -> "Address"
      [] OTHER -> "Token"

FillOrZero(store, key) ==
    IF key \in DOMAIN store THEN StoredFill(store, key) ELSE Units(0)

\* a configuration whose error thresholds leave room for two errors of a
\* kind from one principal without a ban
RoomyConfigs ==
    {Config(MaxTimeframe, MaxThreshold + 1, MaxThreshold + 1, MaxThreshold + 1, GasWide, 1)}

InitRoomy == InitWith(RoomyConfigs)

SpecRoomy == InitRoomy /\ [][Next]_vars

\* C31: while no tick has fired, for every active principal that is not in
\* the ban list and every error class (incorrect nonce, max gas, reverts)
\* the fill of its bucket equals the ban-progress counter of its record.
C31_BucketEqualsCounter ==
    (panicked = "no" /\ next_check = config.timeframe) =>
        \A slot \in Slots :
           \A k \in DOMAIN ActiveMap(slot) \ DOMAIN BanMap(slot) :
              \A error_kind \in Arithmetic \ {"UsedExcessiveGas"} :
                 FillOrZero(leaky_buckets,
                            BucketName(IdentityOf(slot),
                                       BucketNameValue(IdentityOf(slot), k), error_kind))
                 = Units(Counter(ActiveMap(slot)[k].ban_progress, error_kind))

-----------------------------------------------------------------------------
\* C32: after every operation the active maps and the ban list are
\* disjoint: no IP, address or token has a record in both.
C32_ActiveAndBannedDisjoint ==
    \A slot \in Slots : DOMAIN ActiveMap(slot) \cap DOMAIN BanMap(slot) = {}

-----------------------------------------------------------------------------
\* the amount process_bucket asks get_fill to add for a bucket update
AddedBy(u) ==
    IF u.key.error = "UsedExcessiveGas"
    THEN BucketValue("UsedExcessiveGas", u.amount)
    ELSE BucketValue(u.key.error, 1)

AsGas(v) == IF v.kind = "UsedExcessiveGas" THEN v.val ELSE Units(v.val)

\* C33: get_fill, as read_input calls it for each bucket update of a
\* message, returns the added amount for a key the store does not hold and
\* the stored fill plus the added amount for a key it holds.
C33_GetFillReturnsSum ==
    [][op' = "read_input" =>
         \A u \in UpdatesOf(LastMsg', config) :
            LET returned == get_fill(leaky_buckets, u.key, AddedBy(u))
            IN  /\ ~IsPanic(returned)
                /\ AsGas(returned) = ProposedFill(leaky_buckets, u.key, u.amount)]_vars

-----------------------------------------------------------------------------
(* The methods of LeakyBucket, called directly on the names of two buckets *)
(* while the wall clock advances in seconds.                               *)

MaxFill == 2

StoreNames ==
    {BucketName("IP", BucketNameValue("IP", IP1), "Reverts"),
     BucketName("IP", BucketNameValue("IP", IP1), "MaxGas")}

StoreValues == {BucketValue(kind, n) : kind \in {"Reverts", "MaxGas"}, n \in 1..MaxFill}

\* the second in which a call is made: not before the last call's
Seconds == {t \in {bucket_call.now, bucket_call.now + 1} : t <= MaxClock}

StoreFrame ==
    /\ input' = NoRecord
    /\ banned' = NoBans
    /\ ban_reasons' = <<>>
    /\ UNCHANGED <<config, next_check, user_clients, user_addresses, user_tokens,
                   ban_list, elapsed, metrics, nats, bucket_queue, service>>

Called(key, value, t, returned) ==
    [key |-> Some(key), value |-> Some(value), now |-> t, returned |-> returned]

StoreGetFill(key, value, t) ==
    /\ panicked = "no"
    /\ LET returned == get_fill(leaky_buckets, key, value)
       IN  /\ bucket_call' = Called(key, value, t, Some(returned))
           /\ panicked' = IF IsPanic(returned) THEN returned.kind ELSE "no"
    /\ UNCHANGED leaky_buckets
    /\ op' = "get_fill"
    /\ StoreFrame

StoreFill(key, value, t) ==
    /\ panicked = "no"
    /\ LET done == fill(leaky_buckets, key, value)
       IN  /\ leaky_buckets' = done.store
           /\ panicked' = done.panic
    /\ bucket_call' = Called(key, value, t, None)
    /\ op' = "fill"
    /\ StoreFrame

StoreDecrease(key, value, t) ==
    /\ panicked = "no"
    /\ LET done == decrease(leaky_buckets, key, value)
       IN  /\ leaky_buckets' = done.store
           /\ panicked' = done.panic
    /\ bucket_call' = Called(key, value, t, None)
    /\ op' = "decrease"
    /\ StoreFrame

StoreLeaky(key, value, t) ==
    /\ panicked = "no"
    /\ LET done == leaky(leaky_buckets, key, value)
       IN  /\ leaky_buckets' = done.store
           /\ panicked' = done.panic
    /\ bucket_call' = Called(key, value, t, None)
    /\ op' = "leaky"
    /\ StoreFrame

NextStore ==
    \/ \E key \in StoreNames, value \in StoreValues, t \in Seconds : StoreGetFill(key, value, t)
    \/ \E key \in StoreNames, value \in StoreValues, t \in Seconds : StoreFill(key, value, t)
    \/ \E key \in StoreNames, value \in StoreValues, t \in Seconds : StoreDecrease(key, value, t)
    \/ \E key \in StoreNames, value \in StoreValues, t \in Seconds : StoreLeaky(key, value, t)

SpecStore == Init /\ [][NextStore]_vars

\* C34: a leak applied to a key in the very second in which the key was
\* filled (the time since the last update is 0, below every minimum
\* dwell) changes nothing in the store.
C34_NoLeakWithinDwell ==
    [][(/\ op = "fill" /\ op' = "leaky"
        /\ bucket_call'.key = bucket_call.key
        /\ bucket_call'.now = bucket_call.now) =>
          leaky_buckets' = leaky_buckets]_vars

-----------------------------------------------------------------------------
(* process: the order in which the loop of the driver calls the engine.    *)

\* a loop that makes its calls in any order
LoopNextAnyOrder(last) == {"malformed", "read_input", "tick"}

\* what the loop does after the step `last`: after read_input has
\* returned it calls tick, and otherwise (at the start, after tick, after
\* a line that did not parse) it reads the next line
LoopNext(last) ==
    IF last = "read_input" THEN {"tick"} ELSE {"malformed", "read_input"}

NextLoop ==
    \/ \E rec \in Records : "malformed" \in LoopNext(op) /\ Malformed(rec)
    \/ \E rec \in Records : "read_input" \in LoopNext(op) /\ ReadInput(rec)
    \/ \E e \in Instants : "tick" \in LoopNext(op) /\ Tick(e)

SpecLoop == Init /\ [][NextLoop]_vars

\* C35: the driver calls read_input and tick one after the other: the
\* step after a read_input call that returned is a tick, and a tick comes
\* only directly after a read_input call, so there is exactly one tick
\* between two read_input calls.
C35_OneTickAfterEachReadInput ==
    [][/\ (op = "read_input" /\ panicked = "no") => op' = "tick"
       /\ op' = "tick" => op = "read_input"]_vars

\* the tick of the second pass of the loop
C35_Witness ==
    /\ op = "tick"
    /\ TotalTx >= 2

-----------------------------------------------------------------------------
(* main.rs: the connection events.  main connects, then events_processing   *)
(* serves the mpsc channel of ConnectionEvents; the nats callbacks and the  *)
(* tasks whose publish or subscribe failed are its senders.                 *)
MaxCid == 3
MaxEvents == 2
MaxOutages == 2

ServiceFrame ==
    UNCHANGED <<config, next_check, user_clients, user_addresses, user_tokens,
                ban_list, leaky_buckets, elapsed, panicked, op, input, banned,
                ban_reasons, metrics, nats, bucket_queue, bucket_call>>

\* mpsc::Sender::send / blocking_send on the connection event channel: the
\* sender waits while the channel is full
SendEvent(kind, cid) ==
    /\ Len(service.connection_event) < MaxEvents
    /\ service' = [service EXCEPT
                     !.connection_event = Append(@, ConnectionEvent(kind, cid))]

\* main, one pass of the start-up loop around NATSConnection::connect; the
\* cids are capped at MaxCid, and an attempt that fails leaves one unused
MainConnect ==
    /\ service.main = "connect"
    /\ service.CID < MaxCid
    /\ LET result == connect(service.CID, service.reachable)
       IN  /\ result.ok \/ result.CID < MaxCid
           /\ service' = [service EXCEPT
                            !.CID = result.CID,
                            !.actual_connection = IF result.ok THEN result.val ELSE @,
                            !.main = IF result.ok THEN "check" ELSE @]
    /\ ServiceFrame

\* the server becomes unreachable (MaxOutages times at most), or reachable
\* again
ServerTurns ==
    /\ service.reachable => service.outages < MaxOutages
    /\ service' = [service EXCEPT
                     !.reachable = ~@,
                     !.outages = IF service.reachable THEN @ + 1 ELSE @]
    /\ ServiceFrame

\* disconnect_callback of the current connection: it stops answering (an
\* outage too)
Disconnected ==
    /\ service.main \in {"check", "run"}
    /\ service.actual_connection.cid \notin service.lost
    /\ service.CID < MaxCid
    /\ service.outages < MaxOutages
    /\ Len(service.connection_event) < MaxEvents
    /\ service' = [service EXCEPT
                     !.lost = @ \cup {service.actual_connection.cid},
                     !.outages = @ + 1,
                     !.connection_event =
                        Append(@, ConnectionEvent("ConnectionLost",
                                                  service.actual_connection.cid))]
    /\ ServiceFrame

\* reconnect_callback: the nats client restored a connection by itself
Reestablished(cid) ==
    /\ service.main = "run"
    /\ cid \in service.lost
    /\ service.reachable
    /\ Len(service.connection_event) < MaxEvents
    /\ service' = [service EXCEPT
                     !.lost = @ \ {cid},
                     !.connection_event =
                        Append(@, ConnectionEvent("ConnectionReestablished", cid))]
    /\ ServiceFrame

\* close_callback of a connection that is no longer the current one
Closed(cid) ==
    /\ service.main = "run"
    /\ cid # service.actual_connection.cid
    /\ SendEvent("ConnectionClosed", cid)
    /\ ServiceFrame

\* message_producer, relayer_message_consumer: the operation on the current
\* connection failed, NewConnectionRequest(nats_connection.cid)
Request ==
    /\ service.main = "run"
    /\ service.actual_connection.cid \in service.lost
    /\ SendEvent("NewConnectionRequest", service.actual_connection.cid)
    /\ ServiceFrame

\* events_processing_check, called in the async block that main hands to
\* block_on, after the actix::spawn of events_processing and before the
\* block's end: the spawned tasks are polled once the block has returned.
\* A connection that answers ends the check; otherwise the check calls
\* blocking_send on the thread that drives the runtime.
EventsProcessingCheck ==
    /\ service.main = "check"
    /\ LET nats_connection == service.actual_connection
           sent == blocking_send(TRUE, service.connection_event,
                      ConnectionEvent("NewConnectionRequest", nats_connection.cid))
       IN  IF nats_check_connection(nats_connection, service.lost)
           THEN service' = [service EXCEPT !.main = "run"]
           ELSE /\ Len(service.connection_event) < MaxEvents
                /\ service' = [service EXCEPT
                                 !.connection_event = sent.queue,
                                 !.main = IF sent.panic = "no" THEN @ ELSE "panic"]
    /\ ServiceFrame

\* events_processing: connection_event_rx.recv().await returned an event
EventsProcessingRecv ==
    /\ service.main = "run"
    /\ is_none(service.events_processing)
    /\ service.connection_event # <<>>
    /\ service' = [service EXCEPT
                     !.events_processing = Some(Head(service.connection_event)),
                     !.connection_event = Tail(@)]
    /\ ServiceFrame

\* events_processing: one pass of the loop of the event's arm (the four arms
\* have the same body); on Err it sleeps and takes the loop again
EventsProcessingLoop ==
    /\ service.main = "run"
    /\ is_some(service.events_processing)
    /\ LET event == unwrap(service.events_processing)
           nats_connection == service.actual_connection
           result == try_connect(nats_connection, service.CID, service.lost,
                                 service.reachable)
       IN  IF cid_is_current(event.cid, nats_connection)
           THEN /\ result.CID <= MaxCid
                /\ result.ok \/ result.CID < MaxCid
                /\ service' = [service EXCEPT
                      !.CID = result.CID,
                      !.actual_connection = IF result.ok THEN result.val ELSE @,
                      !.events_processing = IF result.ok THEN None ELSE @,
                      !.replaced =
                         IF result.ok /\ result.val.cid # nats_connection.cid
                         THEN Append(@, [event |-> event.cid,
                                         old |-> nats_connection.cid,
                                         new |-> result.val.cid])
                         ELSE @]
           ELSE service' = [service EXCEPT !.events_processing = None]
    /\ ServiceFrame

NextConnection ==
    \/ MainConnect
    \/ EventsProcessingCheck
    \/ ServerTurns
    \/ Disconnected
    \/ \E cid \in 1..MaxCid : Reestablished(cid)
    \/ \E cid \in 1..service.CID : Closed(cid)
    \/ Request
    \/ EventsProcessingRecv
    \/ EventsProcessingLoop

\* main.rs constructs no Banhammer: the engine's variables keep the values
\* of one configuration and no step of the service changes them
InitService == InitWith(RoomyConfigs)

SpecConnection == InitService /\ [][NextConnection]_vars

\* the connection published in the watch channel changed in this step
Replaced == service'.actual_connection # service.actual_connection

\* C36: once main has connected, the current connection is replaced only by
\* events_processing holding an event whose cid is the current connection's
\* cid (events for older cids change nothing); the new connection's cid is
\* strictly greater than every cid handed out before; and no cid is replaced
\* twice, so several reports of one failure give at most one replacement.
C36_OneReplacementPerCid ==
    [][/\ (service.main = "run" /\ Replaced) =>
             /\ is_some(service.events_processing)
             /\ unwrap(service.events_processing).cid = service.actual_connection.cid
             /\ service'.actual_connection.cid > service.CID
       /\ (is_some(service.events_processing)
           /\ unwrap(service.events_processing).cid # service.actual_connection.cid) =>
             (service'.actual_connection = service.actual_connection
              /\ service'.CID = service.CID)
       /\ \A i, j \in DOMAIN service'.replaced :
             i # j => service'.replaced[i].old # service'.replaced[j].old]_vars

\* a connection was replaced and a further report of its failure is in hand
C36_Witness ==
    /\ service.replaced # <<>>
    /\ is_some(service.events_processing)
    /\ \E i \in DOMAIN service.replaced :
          unwrap(service.events_processing).cid = service.replaced[i].old
    /\ service.actual_connection.cid \in service.lost

-----------------------------------------------------------------------------
(* main.rs: message_producer.  The ban events are numbered in the order in  *)
(* which they are sent to the mpsc channel the producer reads.              *)
MaxBanEvents == 2

\* the producer gives up the event whose publish failed
publish_dropped(ban_event_message, cid) == None

\* message_producer, the Err arm of publish: keep the event, request a new
\* connection for the cid that failed, sleep, take the loop again
publish_failed(ban_event_message, cid) ==
    Some([event |-> ban_event_message, at |-> "send", cid |-> cid])

\* nats::Connection::publish on the connection of `self`
publish(self, lost) == self.cid \notin lost

\* a ban event is sent to ban_event_stream_tx
BanEvent ==
    /\ service.sent < MaxBanEvents
    /\ service' = [service EXCEPT
                     !.sent = @ + 1,
                     !.events_stream = Append(@, service.sent + 1)]
    /\ ServiceFrame

\* message_producer: events_stream.recv().await returned an event
ProducerRecv ==
    /\ service.main = "run"
    /\ is_none(service.message_producer)
    /\ service.events_stream # <<>>
    /\ service' = [service EXCEPT
                     !.message_producer =
                        Some([event |-> Head(service.events_stream),
                              at |-> "publish", cid |-> 0]),
                     !.events_stream = Tail(@)]
    /\ ServiceFrame

\* message_producer: borrow the current connection and publish on it
ProducerPublish ==
    /\ service.main = "run"
    /\ is_some(service.message_producer)
    /\ unwrap(service.message_producer).at = "publish"
    /\ LET nats_connection == service.actual_connection
           ban_event_message == unwrap(service.message_producer).event
       IN  IF publish(nats_connection, service.lost)
           THEN service' = [service EXCEPT
                              !.published = Append(@, ban_event_message),
                              !.message_producer = None]
           ELSE service' = [service EXCEPT
                              !.message_producer =
                                 publish_failed(ban_event_message,
                                                nats_connection.cid)]
    /\ ServiceFrame

\* message_producer: connection_event_tx.send(NewConnectionRequest(cid))
\* .await, then the sleep, then the loop again
ProducerSend ==
    /\ service.main = "run"
    /\ is_some(service.message_producer)
    /\ unwrap(service.message_producer).at = "send"
    /\ Len(service.connection_event) < MaxEvents
    /\ service' = [service EXCEPT
                     !.connection_event =
                        Append(@, ConnectionEvent("NewConnectionRequest",
                                      unwrap(service.message_producer).cid)),
                     !.message_producer =
                        Some([unwrap(service.message_producer)
                                 EXCEPT !.at = "publish"])]
    /\ ServiceFrame

NextProducer ==
    \/ MainConnect
    \/ EventsProcessingCheck
    \/ ServerTurns
    \/ Disconnected
    \/ \E cid \in 1..MaxCid : Reestablished(cid)
    \/ EventsProcessingRecv
    \/ EventsProcessingLoop
    \/ BanEvent
    \/ ProducerRecv
    \/ ProducerPublish
    \/ ProducerSend

SpecProducer == InitService /\ [][NextProducer]_vars

\* The tasks are tokio tasks of one runtime, which polls every ready task;
\* the permits of an mpsc channel are handed out in the order of the
\* requests, so a sender that waits for room gets it (strong fairness).  The
\* server that comes back is the premise "the bus eventually accepts".
SpecProducerFair ==
    /\ SpecProducer
    /\ WF_vars(MainConnect)
    /\ WF_vars(EventsProcessingCheck)
    /\ WF_vars(ServerTurns /\ service'.reachable)
    /\ WF_vars(EventsProcessingRecv)
    /\ WF_vars(EventsProcessingLoop)
    /\ WF_vars(ProducerRecv)
    /\ WF_vars(ProducerPublish)
    /\ SF_vars(ProducerSend)

\* the events the producer holds or has held, in the order of the channel
Held ==
    service.published
    \o (IF is_some(service.message_producer)
        THEN <<unwrap(service.message_producer).event>> ELSE <<>>)
    \o service.events_stream

-----------------------------------------------------------------------------
(* main.rs: the signal handlers and main's restart loop.  The handlers are  *)
(* tasks of the actix system; each stores its number in the static SIGNAL,  *)
(* and all but hup_switch ask the system to stop.  System::stop sends a     *)
(* command to the system's controller task: run() returns when that task    *)
(* has acted on it, and the other tasks are polled until then.              *)
SIGHUP == 1
SIGUSR1 == 10
SIGUSR2 == 12
SIGTERM == 15
CTRL_C == 602437500

\* key_switch, term_switch, kill_switch_usr1, kill_switch_usr2
Terminating == {CTRL_C, SIGTERM, SIGUSR2, SIGUSR1}

\* main: if let 602437500 | 15 | 12 | 10 = SIGNAL.load(SeqCst) { break }
breaks(signal) == signal \in Terminating

\* key_switch / term_switch / kill_switch_usr1 / kill_switch_usr2: the
\* signal arrived, SIGNAL.store(n), System::current().stop()
KillSwitch(n) ==
    /\ service.main = "run"
    /\ service' = [service EXCEPT
                     !.SIGNAL = n,
                     !.stop = TRUE,
                     !.handled = @ \cup {n}]
    /\ ServiceFrame

\* hup_switch: the signal arrived, SIGNAL.store(1), and nothing else
HupSwitch ==
    /\ service.main = "run"
    /\ service' = [service EXCEPT
                     !.SIGNAL = SIGHUP,
                     !.handled = @ \cup {SIGHUP}]
    /\ ServiceFrame

\* main after run() has returned: leave the loop, or take it again with new
\* channels and NATSConnection::new()
AfterRun ==
    [service EXCEPT
       !.main = IF breaks(service.SIGNAL) THEN "exit" ELSE "connect",
       !.stop = FALSE,
       !.handled = IF breaks(service.SIGNAL) THEN @ ELSE {},
       !.actual_connection = NATSConnection_new(service.CID),
       !.connection_event = <<>>,
       !.events_processing = None]

\* run() returns because the system was asked to stop
RunStopped ==
    /\ service.main = "run"
    /\ service.stop
    /\ service' = AfterRun
    /\ ServiceFrame

\* run() returns with a run-time error, no stop having been asked for
RunFailed ==
    /\ service.main = "run"
    /\ ~service.stop
    /\ service.CID < MaxCid
    /\ service' = AfterRun
    /\ ServiceFrame

NextSignal ==
    \/ MainConnect
    \/ EventsProcessingCheck
    \/ ServerTurns
    \/ \E n \in Terminating : KillSwitch(n)
    \/ HupSwitch
    \/ RunStopped
    \/ RunFailed

SpecSignal == InitService /\ [][NextSignal]_vars

\* C38: when run() returns after Ctrl-C, SIGTERM, SIGUSR1 or SIGUSR2 was
\* handled, main leaves its restart loop (also when a SIGHUP was handled in
\* the same run); and while SIGHUP is the only signal handled the system is
\* not asked to stop and main does not exit.
C38_TerminatingSignalExits ==
    [][/\ (service.main = "run" /\ service'.main # "run"
           /\ service.handled \cap Terminating # {}) => service'.main = "exit"
       /\ (service.main = "run" /\ service.handled \subseteq {SIGHUP}) =>
             (~service.stop /\ service'.main # "exit")]_vars

-----------------------------------------------------------------------------
(* main.rs: the start-up check.  Fairness: main's loop and the check run on *)
(* main's thread, events_processing is a task of the runtime, and the       *)
(* server that comes back after each outage is the claim's premise.         *)
SpecCheckFair ==
    /\ SpecConnection
    /\ WF_vars(MainConnect)
    /\ WF_vars(EventsProcessingCheck)
    /\ WF_vars(ServerTurns /\ service'.reachable)
    /\ WF_vars(EventsProcessingRecv)
    /\ WF_vars(EventsProcessingLoop)

\* C39: the start-up check terminates: once main has connected and the
\* check has begun, events_processing_check eventually returns and the
\* producer and consumer tasks are started, the server being reachable
\* again after each outage.
C39_StartupCheckTerminates ==
    (service.main = "check") ~> (service.main = "run")

=============================================================================
